---------------------------- MODULE Spec2Model ----------------------------
(***************************************************************************)
(* Malvar-He-Cutler demosaicing of RGGB Bayer images (demosaic.c).         *)
(*                                                                         *)
(* The model follows the C source: the edge-safe accessors, the kernel     *)
(* evaluators, the pixel assemblers, the six unoptimized row functions,    *)
(* the six public row functions with their inlined interior loop, and the  *)
(* six image functions.  A call is a run of the state machine: the entry   *)
(* point validates its arguments (a failed DEMOSAIC_ASSERT ends the run in *)
(* pc = "fatal"), then computes one output pixel per step.                 *)
(***************************************************************************)
EXTENDS Integers, Sequences, FiniteSets, TLC

VARIABLES
    fn,         \* the entry point called: [kind, v]
    ptr,        \* which of the pointer arguments are non-NULL
    bayer,      \* the Bayer buffer: index -> sample
    args,       \* demosaic_args
    row,        \* the row argument / the image loop's row counter
    col,        \* the column loop's counter
    output,     \* the caller's output buffer: index -> pixel
    written,    \* the indices of output stored to so far
    rgb,        \* mono variants: the (red, green, blue) handed to the luma sum
    pc,         \* control location of the call
    err,        \* the assertion that failed, "" if none
    worker,     \* concurrent callers of the row function: [pc, row, col]
    pending     \* the rows no concurrent caller has taken yet

vars == <<fn, ptr, bayer, args, row, col, output, written, rgb, pc, err,
          worker, pending>>

---------------------------------------------------------------------------
(* Bounds of the model *)

\* largest n_rows drawn
MaxRows == 6
\* largest n_cols drawn
MaxCols == 8

---------------------------------------------------------------------------
(* C arithmetic *)

U8_MAX == 255

\* C integer division truncates toward zero
CDiv(a, b) == IF a >= 0 THEN a \div b ELSE -((-a) \div b)

\* C remainder takes the sign of the dividend
CMod(a, b) == a - b * CDiv(a, b)

\* x >> n for a non-negative x and n >= 0
Shr(x, n) == x \div (2 ^ n)

\* conversion to U8 / U16 keeps the low bits
U8(x) == x % 256
U16(x) == x % 65536

\* DM_LIMIT: constrain between limits, inclusive
\* faulty variant: no upper limit
DM_LIMIT_min_only(x, min, max) == IF x <= min THEN min ELSE x

\* faulty variant: no lower limit
DM_LIMIT_max_only(x, min, max) == IF x >= max THEN max ELSE x

DM_LIMIT(x, min, max) ==
    IF x >= max THEN max ELSE IF x <= min THEN min ELSE x

\* faulty variant: the accumulator is a 16-bit integer
I16_MAX == 2 ^ 15 - 1

\* I32, the type of the accumulator val: the largest and the least value
I32_MAX == 2147483647

I32_MIN == -I32_MAX - 1

\* GET_PIX: get pixel value in image buffer with NO safety checking
GET_PIX(b, n_cols, r, c) == b[n_cols * r + c]

RECURSIVE SeqSum(_)
SeqSum(s) == IF s = <<>> THEN 0 ELSE Head(s) + SeqSum(Tail(s))

---------------------------------------------------------------------------
(* Edge-safe pixel accessors *)

\* the coordinate get_pixel*_safe reads for a requested one: the two ifs of
\* each axis run in order on the same variable
\* faulty variant: a plain mirror about the border, without the parity rule
safe_coord_mirror(n, x) ==
    LET x1 == IF x < 0 THEN -x ELSE x
        x2 == IF x1 >= n THEN 2 * n - 2 - x1 ELSE x1
    IN  x2

\* faulty variant: clamp to the nearest border sample
safe_coord_clamp(n, x) ==
    LET x1 == IF x < 0 THEN 0 ELSE x
        x2 == IF x1 >= n THEN n - 1 ELSE x1
    IN  x2

\* faulty variant: a coordinate past the end reads the last sample
safe_coord_last(n, x) ==
    LET x1 == IF x < 0 THEN CMod(-x, 2) ELSE x
        x2 == IF x1 >= n THEN n - 1 ELSE x1
    IN  x2

safe_coord(n, x) ==
    LET x1 == IF x < 0 THEN CMod(-x, 2) ELSE x
        x2 == IF x1 >= n THEN n - 2 + CMod(x1, 2) ELSE x1
    IN  x2

\* the index get_pixel16_safe reads
get_pixel16_safe_index(n_rows, n_cols, r, c) ==
    n_cols * safe_coord(n_rows, r) + safe_coord(n_cols, c)

get_pixel16_safe(b, n_rows, n_cols, r, c) ==
    b[get_pixel16_safe_index(n_rows, n_cols, r, c)]

\* the index get_pixel8_safe reads
get_pixel8_safe_index(n_rows, n_cols, r, c) ==
    n_cols * safe_coord(n_rows, r) + safe_coord(n_cols, c)

get_pixel8_safe(b, n_rows, n_cols, r, c) ==
    b[get_pixel8_safe_index(n_rows, n_cols, r, c)]

---------------------------------------------------------------------------
(* Kernel evaluators *)

\* get_green16: the weighted taps <<d_row, d_col, weight>> and the divisor (lines 209-218)
kernel_get_green16 ==
    [taps |-> <<<<-2, 0, -1>>, <<-1, 0, 2>>, <<0, -2, -1>>, <<0, -1, 2>>, <<0, 0, 4>>, <<0, 1, 2>>, <<0, 2, -1>>, <<1, 0, 2>>, <<2, 0, -1>>>>,
     div |-> 8]

\* get_green8: the weighted taps <<d_row, d_col, weight>> and the divisor (lines 235-244)
kernel_get_green8 ==
    [taps |-> <<<<-2, 0, -1>>, <<-1, 0, 2>>, <<0, -2, -1>>, <<0, -1, 2>>, <<0, 0, 4>>, <<0, 1, 2>>, <<0, 2, -1>>, <<1, 0, 2>>, <<2, 0, -1>>>>,
     div |-> 8]

\* get_red_blue_from_row16: the weighted taps <<d_row, d_col, weight>> and the divisor (lines 272-283)
kernel_get_red_blue_from_row16 ==
    [taps |-> <<<<-2, 0, 1>>, <<-1, -1, -2>>, <<-1, 1, -2>>, <<0, -2, -2>>, <<0, -1, 8>>, <<0, 0, 10>>, <<0, 1, 8>>, <<0, 2, -2>>, <<1, -1, -2>>, <<1, 1, -2>>, <<2, 0, 1>>>>,
     div |-> 16]

\* get_red_blue_from_row8: the weighted taps <<d_row, d_col, weight>> and the divisor (lines 300-311)
kernel_get_red_blue_from_row8 ==
    [taps |-> <<<<-2, 0, 1>>, <<-1, -1, -2>>, <<-1, 1, -2>>, <<0, -2, -2>>, <<0, -1, 8>>, <<0, 0, 10>>, <<0, 1, 8>>, <<0, 2, -2>>, <<1, -1, -2>>, <<1, 1, -2>>, <<2, 0, 1>>>>,
     div |-> 16]

\* faulty variant: the column stencil with the axes of the row stencil
kernel_get_red_blue_from_column16_not_swapped ==
    kernel_get_red_blue_from_row16

\* get_red_blue_from_column16: the weighted taps <<d_row, d_col, weight>> and the divisor (lines 338-349)
kernel_get_red_blue_from_column16 ==
    [taps |-> <<<<-2, 0, -2>>, <<-1, -1, -2>>, <<-1, 0, 8>>, <<-1, 1, -2>>, <<0, -2, 1>>, <<0, 0, 10>>, <<0, 2, 1>>, <<1, -1, -2>>, <<1, 0, 8>>, <<1, 1, -2>>, <<2, 0, -2>>>>,
     div |-> 16]

\* get_red_blue_from_column8: the weighted taps <<d_row, d_col, weight>> and the divisor (lines 366-377)
kernel_get_red_blue_from_column8 ==
    [taps |-> <<<<-2, 0, -2>>, <<-1, -1, -2>>, <<-1, 0, 8>>, <<-1, 1, -2>>, <<0, -2, 1>>, <<0, 0, 10>>, <<0, 2, 1>>, <<1, -1, -2>>, <<1, 0, 8>>, <<1, 1, -2>>, <<2, 0, -2>>>>,
     div |-> 16]

\* get_red_blue_from_opposite16: the weighted taps <<d_row, d_col, weight>> and the divisor (lines 404-413)
kernel_get_red_blue_from_opposite16 ==
    [taps |-> <<<<-2, 0, -3>>, <<-1, -1, 4>>, <<-1, 1, 4>>, <<0, -2, -3>>, <<0, 0, 12>>, <<0, 2, -3>>, <<1, -1, 4>>, <<1, 1, 4>>, <<2, 0, -3>>>>,
     div |-> 16]

\* get_red_blue_from_opposite8: the weighted taps <<d_row, d_col, weight>> and the divisor (lines 430-439)
kernel_get_red_blue_from_opposite8 ==
    [taps |-> <<<<-2, 0, -3>>, <<-1, -1, 4>>, <<-1, 1, 4>>, <<0, -2, -3>>, <<0, 0, 12>>, <<0, 2, -3>>, <<1, -1, 4>>, <<1, 1, 4>>, <<2, 0, -3>>>>,
     div |-> 16]

\* the products sample * weight of a stencil, in the order of the source
Products16(k, b, a, r, c) ==
    [i \in 1..Len(k.taps) |->
        get_pixel16_safe(b, a.n_rows, a.n_cols,
                         r + k.taps[i][1], c + k.taps[i][2]) * k.taps[i][3]]

Products8(k, b, a, r, c) ==
    [i \in 1..Len(k.taps) |->
        get_pixel8_safe(b, a.n_rows, a.n_cols,
                        r + k.taps[i][1], c + k.taps[i][2]) * k.taps[i][3]]

\* (sum of get_pixel16_safe(...) * weight) / div, in an I32
stencil_safe16(k, b, a, r, c) == CDiv(SeqSum(Products16(k, b, a, r, c)), k.div)

stencil_safe8(k, b, a, r, c) == CDiv(SeqSum(Products8(k, b, a, r, c)), k.div)

\* faulty variant: the green stencil divided by 16
get_green16_div16(b, a, r, c) ==
    LET val == CDiv(SeqSum(Products16(kernel_get_green16, b, a, r, c)), 16)
    IN  U16(DM_LIMIT(val, 0, a.max_val))

get_green16(b, a, r, c) ==
    LET val == stencil_safe16(kernel_get_green16, b, a, r, c)
    IN  U16(DM_LIMIT(val, 0, a.max_val))

get_green8(b, a, r, c) ==
    LET val == stencil_safe8(kernel_get_green8, b, a, r, c)
    IN  U8(DM_LIMIT(val, 0, a.max_val))

get_red_blue_from_row16(b, a, r, c) ==
    LET val == stencil_safe16(kernel_get_red_blue_from_row16, b, a, r, c)
    IN  U16(DM_LIMIT(val, 0, a.max_val))

\* returns U8 through a (U16) cast
get_red_blue_from_row8(b, a, r, c) ==
    LET val == stencil_safe8(kernel_get_red_blue_from_row8, b, a, r, c)
    IN  U8(U16(DM_LIMIT(val, 0, a.max_val)))

get_red_blue_from_column16(b, a, r, c) ==
    LET val == stencil_safe16(kernel_get_red_blue_from_column16, b, a, r, c)
    IN  U16(DM_LIMIT(val, 0, a.max_val))

get_red_blue_from_column8(b, a, r, c) ==
    LET val == stencil_safe8(kernel_get_red_blue_from_column8, b, a, r, c)
    IN  U8(U16(DM_LIMIT(val, 0, a.max_val)))

get_red_blue_from_opposite16(b, a, r, c) ==
    LET val == stencil_safe16(kernel_get_red_blue_from_opposite16, b, a, r, c)
    IN  U16(DM_LIMIT(val, 0, a.max_val))

get_red_blue_from_opposite8(b, a, r, c) ==
    LET val == stencil_safe8(kernel_get_red_blue_from_opposite8, b, a, r, c)
    IN  U8(U16(DM_LIMIT(val, 0, a.max_val)))

---------------------------------------------------------------------------
(* Pixel assemblers: one RGB pixel from the native sample and two kernels *)

get_rgb16_at_red16(b, a, r, c) ==
    [red   |-> get_pixel16_safe(b, a.n_rows, a.n_cols, r, c),
     green |-> get_green16(b, a, r, c),
     blue  |-> get_red_blue_from_opposite16(b, a, r, c)]

get_rgb8_at_red8(b, a, r, c) ==
    [red   |-> get_pixel8_safe(b, a.n_rows, a.n_cols, r, c),
     green |-> get_green8(b, a, r, c),
     blue  |-> get_red_blue_from_opposite8(b, a, r, c)]

\* each channel is shifted, then stored in a U8 field
get_rgb8_at_red16(b, a, r, c) ==
    [red   |-> U8(Shr(get_pixel16_safe(b, a.n_rows, a.n_cols, r, c), a.rshift)),
     green |-> U8(Shr(get_green16(b, a, r, c), a.rshift)),
     blue  |-> U8(Shr(get_red_blue_from_opposite16(b, a, r, c), a.rshift))]

\* faulty variant: red is read along the column and blue along the row
get_rgb16_at_green_rg16_axes_exchanged(b, a, r, c) ==
    [red   |-> get_red_blue_from_column16(b, a, r, c),
     green |-> get_pixel16_safe(b, a.n_rows, a.n_cols, r, c),
     blue  |-> get_red_blue_from_row16(b, a, r, c)]

get_rgb16_at_green_rg16(b, a, r, c) ==
    [red   |-> get_red_blue_from_row16(b, a, r, c),
     green |-> get_pixel16_safe(b, a.n_rows, a.n_cols, r, c),
     blue  |-> get_red_blue_from_column16(b, a, r, c)]

get_rgb8_at_green_rg8(b, a, r, c) ==
    [red   |-> get_red_blue_from_row8(b, a, r, c),
     green |-> get_pixel8_safe(b, a.n_rows, a.n_cols, r, c),
     blue  |-> get_red_blue_from_column8(b, a, r, c)]

get_rgb8_at_green_rg16(b, a, r, c) ==
    [red   |-> U8(Shr(get_red_blue_from_row16(b, a, r, c), a.rshift)),
     green |-> U8(Shr(get_pixel16_safe(b, a.n_rows, a.n_cols, r, c), a.rshift)),
     blue  |-> U8(Shr(get_red_blue_from_column16(b, a, r, c), a.rshift))]

get_rgb16_at_green_gb16(b, a, r, c) ==
    [red   |-> get_red_blue_from_column16(b, a, r, c),
     green |-> get_pixel16_safe(b, a.n_rows, a.n_cols, r, c),
     blue  |-> get_red_blue_from_row16(b, a, r, c)]

\* faulty variant: red from the row stencil, blue from the column stencil
get_rgb8_at_green_gb8_swapped(b, a, r, c) ==
    [red   |-> get_red_blue_from_row8(b, a, r, c),
     green |-> get_pixel8_safe(b, a.n_rows, a.n_cols, r, c),
     blue  |-> get_red_blue_from_column8(b, a, r, c)]

get_rgb8_at_green_gb8(b, a, r, c) ==
    [red   |-> get_red_blue_from_column8(b, a, r, c),
     green |-> get_pixel8_safe(b, a.n_rows, a.n_cols, r, c),
     blue  |-> get_red_blue_from_row8(b, a, r, c)]

get_rgb8_at_green_gb16(b, a, r, c) ==
    [red   |-> U8(Shr(get_red_blue_from_column16(b, a, r, c), a.rshift)),
     green |-> U8(Shr(get_pixel16_safe(b, a.n_rows, a.n_cols, r, c), a.rshift)),
     blue  |-> U8(Shr(get_red_blue_from_row16(b, a, r, c), a.rshift))]

get_rgb16_at_blue16(b, a, r, c) ==
    [red   |-> get_red_blue_from_opposite16(b, a, r, c),
     green |-> get_green16(b, a, r, c),
     blue  |-> get_pixel16_safe(b, a.n_rows, a.n_cols, r, c)]

get_rgb8_at_blue8(b, a, r, c) ==
    [red   |-> get_red_blue_from_opposite8(b, a, r, c),
     green |-> get_green8(b, a, r, c),
     blue  |-> get_pixel8_safe(b, a.n_rows, a.n_cols, r, c)]

get_rgb8_at_blue16(b, a, r, c) ==
    [red   |-> U8(Shr(get_red_blue_from_opposite16(b, a, r, c), a.rshift)),
     green |-> U8(Shr(get_green16(b, a, r, c), a.rshift)),
     blue  |-> U8(Shr(get_pixel16_safe(b, a.n_rows, a.n_cols, r, c), a.rshift))]

---------------------------------------------------------------------------
(* Argument validation.  Chk(test, name, rest): DEMOSAIC_ASSERT(test), then *)
(* the statements after it; the value is the name of the first assertion    *)
(* that fails, "" when none does.                                           *)

Chk(test, name, rest) == IF ~test THEN name ELSE rest

\* faulty variant: only the minimum size is asserted
demosaic_malvar_assert_proper_dimensions_min_only(a, rest) ==
    Chk(a.n_cols >= 2, "n_cols",
    Chk(a.n_rows >= 2, "n_rows", rest))

\* assert dimensions are properly sized
demosaic_malvar_assert_proper_dimensions(a, rest) ==
    Chk(a.n_cols >= 2, "n_cols",
    Chk(a.n_rows >= 2, "n_rows",
    Chk(CMod(a.n_cols, 2) = 0, "n_cols",
    Chk(CMod(a.n_rows, 2) = 0, "n_rows", rest))))

\* luma coefficients are held in thousandths: coefs.red = 299 is 0.299
CoefUnit == 10 ^ 3

\* 1 / 0.000001, the epsilon added to the coefficient sum
coef_eps_inv == 1000000

\* faulty variant: the epsilon is not added to the coefficient sum
coef_sum_scaled_no_epsilon(a) ==
    (a.coefs.red + a.coefs.green + a.coefs.blue) * (coef_eps_inv \div CoefUnit)

\* coef_sum = red + green + blue + 0.000001, in units of the epsilon
coef_sum_scaled(a) ==
    (a.coefs.red + a.coefs.green + a.coefs.blue) * (coef_eps_inv \div CoefUnit) + 1

\* the sum of the three normalized coefficients is Num / coef_sum_scaled
coefs_normed_sum_num(a) ==
    (a.coefs.red + a.coefs.green + a.coefs.blue) * (coef_eps_inv \div CoefUnit)

\* assert coefficients are in [0,1]
\* faulty variant: the upper limit of the blue coefficient is not asserted
assert_coefs_range_blue_unbounded(a, rest) ==
    Chk(0 <= a.coefs.red /\ a.coefs.red <= CoefUnit, "coefs.red",
    Chk(0 <= a.coefs.green /\ a.coefs.green <= CoefUnit, "coefs.green",
    Chk(0 <= a.coefs.blue, "coefs.blue", rest)))

assert_coefs_range(a, rest) ==
    Chk(0 <= a.coefs.red /\ a.coefs.red <= CoefUnit, "coefs.red",
    Chk(0 <= a.coefs.green /\ a.coefs.green <= CoefUnit, "coefs.green",
    Chk(0 <= a.coefs.blue /\ a.coefs.blue <= CoefUnit, "coefs.blue", rest)))

\* normalize coefficients; assert the sum of the normalized ones is < 1.0
assert_coef_sum(a, rest) ==
    Chk(coefs_normed_sum_num(a) < coef_sum_scaled(a), "coef_sum", rest)

\* quotient and remainder of (coef_eps_inv / CoefUnit) * n by d, one decimal
\* digit at a time so that no intermediate value leaves 32 bits
times1000_div(n, d) ==
    LET r0 == n % d
        r1 == (10 * r0) % d
        r2 == (10 * r1) % d
    IN  [quot |-> 1000 * (n \div d) + 100 * ((10 * r0) \div d)
                    + 10 * ((10 * r1) \div d) + (10 * r2) \div d,
         rem  |-> (10 * r2) % d]

\* faulty variant: 1 is added before the conversion instead of 0.5
luma_round_up(a, t) ==
    LET n == a.coefs.red * t.red + a.coefs.green * t.green
                 + a.coefs.blue * t.blue
        d == coef_sum_scaled(a)
        qr == times1000_div(n, d)
    IN  qr.quot + 1

\* coefs_normed.red * red + coefs_normed.green * green
\*     + coefs_normed.blue * blue + 0.5, converted to an integer.
\* In exact arithmetic the value is 1000 * n / d + 1 / 2 with
\* n = sum of coef * channel and d = coef_sum_scaled, which is odd, so the
\* value is never within 1 / (2 * d) of an integer and the rounding error
\* of the F64 computation cannot change the truncated result.
luma(a, t) ==
    LET n == a.coefs.red * t.red + a.coefs.green * t.green
                 + a.coefs.blue * t.blue
        d == coef_sum_scaled(a)
        qr == times1000_div(n, d)
    IN  qr.quot + (IF 2 * qr.rem >= d THEN 1 ELSE 0)

\* demosaic_malvar_row_rgb16_unoptimized: the assertions before the column loop
checks_row_rgb16_unoptimized(p, a, r) ==
    Chk(p.bayer, "bayer",
    Chk(p.args, "args",
    Chk(p.output, "output_row",
    demosaic_malvar_assert_proper_dimensions(a,
    Chk(0 <= r /\ r < a.n_rows, "row",
    "")))))

\* demosaic_malvar_row_rgb8_unoptimized: the assertions before the column loop
checks_row_rgb8_unoptimized(p, a, r) ==
    Chk(p.bayer, "bayer",
    Chk(p.args, "args",
    Chk(p.output, "output_row",
    demosaic_malvar_assert_proper_dimensions(a,
    Chk(0 <= r /\ r < a.n_rows, "row",
    Chk(a.max_val <= U8_MAX, "max_val",
    ""))))))

\* faulty variant: max_val >> rshift is not asserted to fit in 8 bits
checks_row_rgb16to8_unoptimized_no_shift(p, a, r) ==
    Chk(p.bayer, "bayer",
    Chk(p.args, "args",
    Chk(p.output, "output_row",
    demosaic_malvar_assert_proper_dimensions(a,
    Chk(0 <= r /\ r < a.n_rows, "row",
    Chk(a.rshift >= 0, "rshift",
    ""))))))

\* demosaic_malvar_row_rgb16to8_unoptimized: the assertions before the column loop
checks_row_rgb16to8_unoptimized(p, a, r) ==
    Chk(p.bayer, "bayer",
    Chk(p.args, "args",
    Chk(p.output, "output_row",
    demosaic_malvar_assert_proper_dimensions(a,
    Chk(0 <= r /\ r < a.n_rows, "row",
    Chk(a.rshift >= 0, "rshift",
    Chk(Shr(a.max_val, a.rshift) <= U8_MAX, "max_val >> rshift",
    "")))))))

\* demosaic_malvar_row_mono16_unoptimized: the assertions before the column loop
checks_row_mono16_unoptimized(p, a, r) ==
    Chk(p.bayer, "bayer",
    Chk(p.args, "args",
    Chk(p.output, "output_row",
    demosaic_malvar_assert_proper_dimensions(a,
    Chk(0 <= r /\ r < a.n_rows, "row",
    assert_coefs_range(a,
    assert_coef_sum(a,
    "")))))))

\* faulty variant: the row is not asserted to be in the image
checks_row_mono8_unoptimized_no_row(p, a, r) ==
    Chk(p.bayer, "bayer",
    Chk(p.args, "args",
    Chk(p.output, "output_row",
    demosaic_malvar_assert_proper_dimensions(a,
    Chk(a.max_val <= U8_MAX, "max_val",
    assert_coefs_range(a,
    assert_coef_sum(a,
    "")))))))

\* demosaic_malvar_row_mono8_unoptimized: the assertions before the column loop
checks_row_mono8_unoptimized(p, a, r) ==
    Chk(p.bayer, "bayer",
    Chk(p.args, "args",
    Chk(p.output, "output_row",
    demosaic_malvar_assert_proper_dimensions(a,
    Chk(0 <= r /\ r < a.n_rows, "row",
    Chk(a.max_val <= U8_MAX, "max_val",
    assert_coefs_range(a,
    assert_coef_sum(a,
    ""))))))))

\* demosaic_malvar_row_mono16to8_unoptimized: the assertions before the column loop
checks_row_mono16to8_unoptimized(p, a, r) ==
    Chk(p.bayer, "bayer",
    Chk(p.args, "args",
    Chk(p.output, "output_row",
    demosaic_malvar_assert_proper_dimensions(a,
    demosaic_malvar_assert_proper_dimensions(a,
    Chk(0 <= r /\ r < a.n_rows, "row",
    assert_coefs_range(a,
    Chk(a.rshift >= 0, "rshift",
    Chk(Shr(a.max_val, a.rshift) <= U8_MAX, "max_val >> rshift",
    assert_coef_sum(a,
    ""))))))))))

\* faulty variant: a middle row does not assert bayer != NULL
checks_row_rgb16_no_bayer(p, a, r) ==
    Chk(p.output, "output_row",
    demosaic_malvar_assert_proper_dimensions(a,
    Chk(0 <= r /\ r < a.n_rows, "row",
    "")))

\* demosaic_malvar_row_rgb16: the assertions of a middle row, after the dispatch
checks_row_rgb16(p, a, r) ==
    Chk(p.output, "output_row",
    Chk(p.bayer, "bayer",
    demosaic_malvar_assert_proper_dimensions(a,
    Chk(0 <= r /\ r < a.n_rows, "row",
    ""))))

\* demosaic_malvar_row_rgb8: the assertions of a middle row, after the dispatch
checks_row_rgb8(p, a, r) ==
    Chk(p.output, "output_row",
    Chk(p.bayer, "bayer",
    demosaic_malvar_assert_proper_dimensions(a,
    Chk(0 <= r /\ r < a.n_rows, "row",
    Chk(a.max_val <= U8_MAX, "max_val",
    "")))))

\* demosaic_malvar_row_rgb16to8: the assertions of a middle row, after the dispatch
checks_row_rgb16to8(p, a, r) ==
    Chk(p.output, "output_row",
    Chk(p.bayer, "bayer",
    demosaic_malvar_assert_proper_dimensions(a,
    Chk(0 <= r /\ r < a.n_rows, "row",
    Chk(a.rshift >= 0, "rshift",
    Chk(Shr(a.max_val, a.rshift) <= U8_MAX, "max_val >> rshift",
    ""))))))

\* demosaic_malvar_row_mono16: the assertions of a middle row, after the dispatch
checks_row_mono16(p, a, r) ==
    Chk(p.output, "output_row",
    Chk(p.bayer, "bayer",
    demosaic_malvar_assert_proper_dimensions(a,
    Chk(0 <= r /\ r < a.n_rows, "row",
    assert_coefs_range(a,
    assert_coef_sum(a,
    ""))))))

\* demosaic_malvar_row_mono8: the assertions of a middle row, after the dispatch
checks_row_mono8(p, a, r) ==
    Chk(p.output, "output_row",
    Chk(p.bayer, "bayer",
    demosaic_malvar_assert_proper_dimensions(a,
    Chk(0 <= r /\ r < a.n_rows, "row",
    Chk(a.max_val <= U8_MAX, "max_val",
    assert_coefs_range(a,
    assert_coef_sum(a,
    "")))))))

\* demosaic_malvar_row_mono16to8: the assertions of a middle row, after the dispatch
checks_row_mono16to8(p, a, r) ==
    Chk(p.output, "output_row",
    Chk(p.bayer, "bayer",
    demosaic_malvar_assert_proper_dimensions(a,
    Chk(0 <= r /\ r < a.n_rows, "row",
    assert_coefs_range(a,
    Chk(a.rshift >= 0, "rshift",
    Chk(Shr(a.max_val, a.rshift) <= U8_MAX, "max_val >> rshift",
    assert_coef_sum(a,
    ""))))))))

\* demosaic_malvar_rgb16: the assertions before the row loop
checks_rgb16(p, a) ==
    Chk(p.args, "args",
    demosaic_malvar_assert_proper_dimensions(a,
    ""))

\* demosaic_malvar_rgb8: the assertions before the row loop
checks_rgb8(p, a) ==
    Chk(p.args, "args",
    demosaic_malvar_assert_proper_dimensions(a,
    Chk(a.max_val <= U8_MAX, "max_val",
    "")))

\* demosaic_malvar_rgb16to8: the assertions before the row loop
checks_rgb16to8(p, a) ==
    Chk(p.args, "args",
    demosaic_malvar_assert_proper_dimensions(a,
    ""))

\* demosaic_malvar_mono16: the assertions before the row loop
checks_mono16(p, a) ==
    Chk(p.args, "args",
    demosaic_malvar_assert_proper_dimensions(a,
    ""))

\* demosaic_malvar_mono8: the assertions before the row loop
checks_mono8(p, a) ==
    Chk(p.args, "args",
    demosaic_malvar_assert_proper_dimensions(a,
    Chk(a.max_val <= U8_MAX, "max_val",
    "")))

\* demosaic_malvar_mono16to8: the assertions before the row loop
checks_mono16to8(p, a) ==
    Chk(p.args, "args",
    demosaic_malvar_assert_proper_dimensions(a,
    ""))

---------------------------------------------------------------------------
(* The pixel computed at (r, c) by each row function.  The loop bodies     *)
(* handle two pixels per pass, starting at an even column, so the first    *)
(* pixel of a pass is the one at the even column.                          *)

\* demosaic_malvar_row_rgb16_unoptimized: the helper the loop calls at (r, c)
pixel_row_rgb16_unoptimized(b, a, r, c) ==
    IF CMod(r, 2) = 0
    THEN IF c % 2 = 0 THEN get_rgb16_at_red16(b, a, r, c)
                     ELSE get_rgb16_at_green_rg16(b, a, r, c)
    ELSE IF c % 2 = 0 THEN get_rgb16_at_green_gb16(b, a, r, c)
                     ELSE get_rgb16_at_blue16(b, a, r, c)

\* demosaic_malvar_row_rgb8_unoptimized: the helper the loop calls at (r, c)
pixel_row_rgb8_unoptimized(b, a, r, c) ==
    IF CMod(r, 2) = 0
    THEN IF c % 2 = 0 THEN get_rgb8_at_red8(b, a, r, c)
                     ELSE get_rgb8_at_green_rg8(b, a, r, c)
    ELSE IF c % 2 = 0 THEN get_rgb8_at_green_gb8(b, a, r, c)
                     ELSE get_rgb8_at_blue8(b, a, r, c)

\* demosaic_malvar_row_rgb16to8_unoptimized: the helper the loop calls at (r, c)
pixel_row_rgb16to8_unoptimized(b, a, r, c) ==
    IF CMod(r, 2) = 0
    THEN IF c % 2 = 0 THEN get_rgb8_at_red16(b, a, r, c)
                     ELSE get_rgb8_at_green_rg16(b, a, r, c)
    ELSE IF c % 2 = 0 THEN get_rgb8_at_green_gb16(b, a, r, c)
                     ELSE get_rgb8_at_blue16(b, a, r, c)

\* demosaic_malvar_row_mono16_unoptimized: the helper the loop calls at (r, c)
pixel_row_mono16_unoptimized(b, a, r, c) ==
    IF CMod(r, 2) = 0
    THEN IF c % 2 = 0 THEN get_rgb16_at_red16(b, a, r, c)
                     ELSE get_rgb16_at_green_rg16(b, a, r, c)
    ELSE IF c % 2 = 0 THEN get_rgb16_at_green_gb16(b, a, r, c)
                     ELSE get_rgb16_at_blue16(b, a, r, c)

\* demosaic_malvar_row_mono8_unoptimized: the helper the loop calls at (r, c)
pixel_row_mono8_unoptimized(b, a, r, c) ==
    IF CMod(r, 2) = 0
    THEN IF c % 2 = 0 THEN get_rgb8_at_red8(b, a, r, c)
                     ELSE get_rgb8_at_green_rg8(b, a, r, c)
    ELSE IF c % 2 = 0 THEN get_rgb8_at_green_gb8(b, a, r, c)
                     ELSE get_rgb8_at_blue8(b, a, r, c)

\* demosaic_malvar_row_mono16to8_unoptimized: the helper the loop calls at (r, c)
pixel_row_mono16to8_unoptimized(b, a, r, c) ==
    IF CMod(r, 2) = 0
    THEN IF c % 2 = 0 THEN get_rgb8_at_red16(b, a, r, c)
                     ELSE get_rgb8_at_green_rg16(b, a, r, c)
    ELSE IF c % 2 = 0 THEN get_rgb8_at_green_gb16(b, a, r, c)
                     ELSE get_rgb8_at_blue16(b, a, r, c)

\* demosaic_malvar_row_rgb16: the safe helper called at the left edge
\* (columns 0, 1) and at the right edge (columns ncol-2, ncol-1)
edge_row_rgb16(b, a, r, c) ==
    IF CMod(r, 2) = 0
    THEN IF c % 2 = 0 THEN get_rgb16_at_red16(b, a, r, c)
                     ELSE get_rgb16_at_green_rg16(b, a, r, c)
    ELSE IF c % 2 = 0 THEN get_rgb16_at_green_gb16(b, a, r, c)
                     ELSE get_rgb16_at_blue16(b, a, r, c)

\* demosaic_malvar_row_rgb8: the safe helper called at the left edge
\* (columns 0, 1) and at the right edge (columns ncol-2, ncol-1)
edge_row_rgb8(b, a, r, c) ==
    IF CMod(r, 2) = 0
    THEN IF c % 2 = 0 THEN get_rgb8_at_red8(b, a, r, c)
                     ELSE get_rgb8_at_green_rg8(b, a, r, c)
    ELSE IF c % 2 = 0 THEN get_rgb8_at_green_gb8(b, a, r, c)
                     ELSE get_rgb8_at_blue8(b, a, r, c)

\* demosaic_malvar_row_rgb16to8: the safe helper called at the left edge
\* (columns 0, 1) and at the right edge (columns ncol-2, ncol-1)
edge_row_rgb16to8(b, a, r, c) ==
    IF CMod(r, 2) = 0
    THEN IF c % 2 = 0 THEN get_rgb8_at_red16(b, a, r, c)
                     ELSE get_rgb8_at_green_rg16(b, a, r, c)
    ELSE IF c % 2 = 0 THEN get_rgb8_at_green_gb16(b, a, r, c)
                     ELSE get_rgb8_at_blue16(b, a, r, c)

\* faulty variant: the edges of a red-green row use the helpers of a green-blue row
edge_row_mono16_gb_first(b, a, r, c) ==
    IF CMod(r, 2) = 0
    THEN IF c % 2 = 0 THEN get_rgb16_at_green_gb16(b, a, r, c)
                     ELSE get_rgb16_at_blue16(b, a, r, c)
    ELSE IF c % 2 = 0 THEN get_rgb16_at_green_gb16(b, a, r, c)
                     ELSE get_rgb16_at_blue16(b, a, r, c)

\* demosaic_malvar_row_mono16: the safe helper called at the left edge
\* (columns 0, 1) and at the right edge (columns ncol-2, ncol-1)
edge_row_mono16(b, a, r, c) ==
    IF CMod(r, 2) = 0
    THEN IF c % 2 = 0 THEN get_rgb16_at_red16(b, a, r, c)
                     ELSE get_rgb16_at_green_rg16(b, a, r, c)
    ELSE IF c % 2 = 0 THEN get_rgb16_at_green_gb16(b, a, r, c)
                     ELSE get_rgb16_at_blue16(b, a, r, c)

\* demosaic_malvar_row_mono8: the safe helper called at the left edge
\* (columns 0, 1) and at the right edge (columns ncol-2, ncol-1)
edge_row_mono8(b, a, r, c) ==
    IF CMod(r, 2) = 0
    THEN IF c % 2 = 0 THEN get_rgb8_at_red8(b, a, r, c)
                     ELSE get_rgb8_at_green_rg8(b, a, r, c)
    ELSE IF c % 2 = 0 THEN get_rgb8_at_green_gb8(b, a, r, c)
                     ELSE get_rgb8_at_blue8(b, a, r, c)

\* demosaic_malvar_row_mono16to8: the safe helper called at the left edge
\* (columns 0, 1) and at the right edge (columns ncol-2, ncol-1)
edge_row_mono16to8(b, a, r, c) ==
    IF CMod(r, 2) = 0
    THEN IF c % 2 = 0 THEN get_rgb8_at_red16(b, a, r, c)
                     ELSE get_rgb8_at_green_rg16(b, a, r, c)
    ELSE IF c % 2 = 0 THEN get_rgb8_at_green_gb16(b, a, r, c)
                     ELSE get_rgb8_at_blue16(b, a, r, c)

---------------------------------------------------------------------------
(* The interior loop of the public row functions: GET_PIX stencils *)

\* demosaic_malvar_row_rgb16: the inlined GET_PIX stencils of the interior loop, by Bayer phase
\* and interpolated channel (lines 851-968)
kernels_row_rgb16 ==
    [
     rg_red |->
        [green |-> [taps |-> <<<<-2, 0, -1>>, <<-1, 0, 2>>, <<0, -2, -1>>, <<0, -1, 2>>, <<0, 0, 4>>, <<0, 1, 2>>, <<0, 2, -1>>, <<1, 0, 2>>, <<2, 0, -1>>>>,
          div |-> 8],
         blue |-> [taps |-> <<<<-2, 0, -3>>, <<-1, -1, 4>>, <<-1, 1, 4>>, <<0, -2, -3>>, <<0, 0, 12>>, <<0, 2, -3>>, <<1, -1, 4>>, <<1, 1, 4>>, <<2, 0, -3>>>>,
          div |-> 16]],
     rg_green |->
        [red |-> [taps |-> <<<<-2, 0, 1>>, <<-1, -1, -2>>, <<-1, 1, -2>>, <<0, -2, -2>>, <<0, -1, 8>>, <<0, 0, 10>>, <<0, 1, 8>>, <<0, 2, -2>>, <<1, -1, -2>>, <<1, 1, -2>>, <<2, 0, 1>>>>,
          div |-> 16],
         blue |-> [taps |-> <<<<-2, 0, -2>>, <<-1, -1, -2>>, <<-1, 0, 8>>, <<-1, 1, -2>>, <<0, -2, 1>>, <<0, 0, 10>>, <<0, 2, 1>>, <<1, -1, -2>>, <<1, 0, 8>>, <<1, 1, -2>>, <<2, 0, -2>>>>,
          div |-> 16]],
     gb_green |->
        [red |-> [taps |-> <<<<-2, 0, -2>>, <<-1, -1, -2>>, <<-1, 0, 8>>, <<-1, 1, -2>>, <<0, -2, 1>>, <<0, 0, 10>>, <<0, 2, 1>>, <<1, -1, -2>>, <<1, 0, 8>>, <<1, 1, -2>>, <<2, 0, -2>>>>,
          div |-> 16],
         blue |-> [taps |-> <<<<-2, 0, 1>>, <<-1, -1, -2>>, <<-1, 1, -2>>, <<0, -2, -2>>, <<0, -1, 8>>, <<0, 0, 10>>, <<0, 1, 8>>, <<0, 2, -2>>, <<1, -1, -2>>, <<1, 1, -2>>, <<2, 0, 1>>>>,
          div |-> 16]],
     gb_blue |->
        [red |-> [taps |-> <<<<-2, 0, -3>>, <<-1, -1, 4>>, <<-1, 1, 4>>, <<0, -2, -3>>, <<0, 0, 12>>, <<0, 2, -3>>, <<1, -1, 4>>, <<1, 1, 4>>, <<2, 0, -3>>>>,
          div |-> 16],
         green |-> [taps |-> <<<<-2, 0, -1>>, <<-1, 0, 2>>, <<0, -2, -1>>, <<0, -1, 2>>, <<0, 0, 4>>, <<0, 1, 2>>, <<0, 2, -1>>, <<1, 0, 2>>, <<2, 0, -1>>>>,
          div |-> 8]]
    ]

\* demosaic_malvar_row_rgb8: the inlined GET_PIX stencils of the interior loop, by Bayer phase
\* and interpolated channel (lines 1051-1169)
kernels_row_rgb8 ==
    [
     rg_red |->
        [green |-> [taps |-> <<<<-2, 0, -1>>, <<-1, 0, 2>>, <<0, -2, -1>>, <<0, -1, 2>>, <<0, 0, 4>>, <<0, 1, 2>>, <<0, 2, -1>>, <<1, 0, 2>>, <<2, 0, -1>>>>,
          div |-> 8],
         blue |-> [taps |-> <<<<-2, 0, -3>>, <<-1, -1, 4>>, <<-1, 1, 4>>, <<0, -2, -3>>, <<0, 0, 12>>, <<0, 2, -3>>, <<1, -1, 4>>, <<1, 1, 4>>, <<2, 0, -3>>>>,
          div |-> 16]],
     rg_green |->
        [red |-> [taps |-> <<<<-2, 0, 1>>, <<-1, -1, -2>>, <<-1, 1, -2>>, <<0, -2, -2>>, <<0, -1, 8>>, <<0, 0, 10>>, <<0, 1, 8>>, <<0, 2, -2>>, <<1, -1, -2>>, <<1, 1, -2>>, <<2, 0, 1>>>>,
          div |-> 16],
         blue |-> [taps |-> <<<<-2, 0, -2>>, <<-1, -1, -2>>, <<-1, 0, 8>>, <<-1, 1, -2>>, <<0, -2, 1>>, <<0, 0, 10>>, <<0, 2, 1>>, <<1, -1, -2>>, <<1, 0, 8>>, <<1, 1, -2>>, <<2, 0, -2>>>>,
          div |-> 16]],
     gb_green |->
        [red |-> [taps |-> <<<<-2, 0, -2>>, <<-1, -1, -2>>, <<-1, 0, 8>>, <<-1, 1, -2>>, <<0, -2, 1>>, <<0, 0, 10>>, <<0, 2, 1>>, <<1, -1, -2>>, <<1, 0, 8>>, <<1, 1, -2>>, <<2, 0, -2>>>>,
          div |-> 16],
         blue |-> [taps |-> <<<<-2, 0, 1>>, <<-1, -1, -2>>, <<-1, 1, -2>>, <<0, -2, -2>>, <<0, -1, 8>>, <<0, 0, 10>>, <<0, 1, 8>>, <<0, 2, -2>>, <<1, -1, -2>>, <<1, 1, -2>>, <<2, 0, 1>>>>,
          div |-> 16]],
     gb_blue |->
        [red |-> [taps |-> <<<<-2, 0, -3>>, <<-1, -1, 4>>, <<-1, 1, 4>>, <<0, -2, -3>>, <<0, 0, 12>>, <<0, 2, -3>>, <<1, -1, 4>>, <<1, 1, 4>>, <<2, 0, -3>>>>,
          div |-> 16],
         green |-> [taps |-> <<<<-2, 0, -1>>, <<-1, 0, 2>>, <<0, -2, -1>>, <<0, -1, 2>>, <<0, 0, 4>>, <<0, 1, 2>>, <<0, 2, -1>>, <<1, 0, 2>>, <<2, 0, -1>>>>,
          div |-> 8]]
    ]

\* demosaic_malvar_row_rgb16to8: the inlined GET_PIX stencils of the interior loop, by Bayer phase
\* and interpolated channel (lines 1262-1391)
kernels_row_rgb16to8 ==
    [
     rg_red |->
        [green |-> [taps |-> <<<<-2, 0, -1>>, <<-1, 0, 2>>, <<0, -2, -1>>, <<0, -1, 2>>, <<0, 0, 4>>, <<0, 1, 2>>, <<0, 2, -1>>, <<1, 0, 2>>, <<2, 0, -1>>>>,
          div |-> 8],
         blue |-> [taps |-> <<<<-2, 0, -3>>, <<-1, -1, 4>>, <<-1, 1, 4>>, <<0, -2, -3>>, <<0, 0, 12>>, <<0, 2, -3>>, <<1, -1, 4>>, <<1, 1, 4>>, <<2, 0, -3>>>>,
          div |-> 16]],
     rg_green |->
        [red |-> [taps |-> <<<<-2, 0, 1>>, <<-1, -1, -2>>, <<-1, 1, -2>>, <<0, -2, -2>>, <<0, -1, 8>>, <<0, 0, 10>>, <<0, 1, 8>>, <<0, 2, -2>>, <<1, -1, -2>>, <<1, 1, -2>>, <<2, 0, 1>>>>,
          div |-> 16],
         blue |-> [taps |-> <<<<-2, 0, -2>>, <<-1, -1, -2>>, <<-1, 0, 8>>, <<-1, 1, -2>>, <<0, -2, 1>>, <<0, 0, 10>>, <<0, 2, 1>>, <<1, -1, -2>>, <<1, 0, 8>>, <<1, 1, -2>>, <<2, 0, -2>>>>,
          div |-> 16]],
     gb_green |->
        [red |-> [taps |-> <<<<-2, 0, -2>>, <<-1, -1, -2>>, <<-1, 0, 8>>, <<-1, 1, -2>>, <<0, -2, 1>>, <<0, 0, 10>>, <<0, 2, 1>>, <<1, -1, -2>>, <<1, 0, 8>>, <<1, 1, -2>>, <<2, 0, -2>>>>,
          div |-> 16],
         blue |-> [taps |-> <<<<-2, 0, 1>>, <<-1, -1, -2>>, <<-1, 1, -2>>, <<0, -2, -2>>, <<0, -1, 8>>, <<0, 0, 10>>, <<0, 1, 8>>, <<0, 2, -2>>, <<1, -1, -2>>, <<1, 1, -2>>, <<2, 0, 1>>>>,
          div |-> 16]],
     gb_blue |->
        [red |-> [taps |-> <<<<-2, 0, -3>>, <<-1, -1, 4>>, <<-1, 1, 4>>, <<0, -2, -3>>, <<0, 0, 12>>, <<0, 2, -3>>, <<1, -1, 4>>, <<1, 1, 4>>, <<2, 0, -3>>>>,
          div |-> 16],
         green |-> [taps |-> <<<<-2, 0, -1>>, <<-1, 0, 2>>, <<0, -2, -1>>, <<0, -1, 2>>, <<0, 0, 4>>, <<0, 1, 2>>, <<0, 2, -1>>, <<1, 0, 2>>, <<2, 0, -1>>>>,
          div |-> 8]]
    ]

\* demosaic_malvar_row_mono16: the inlined GET_PIX stencils of the interior loop, by Bayer phase
\* and interpolated channel (lines 1733-1878)
kernels_row_mono16 ==
    [
     rg_red |->
        [green |-> [taps |-> <<<<-2, 0, -1>>, <<-1, 0, 2>>, <<0, -2, -1>>, <<0, -1, 2>>, <<0, 0, 4>>, <<0, 1, 2>>, <<0, 2, -1>>, <<1, 0, 2>>, <<2, 0, -1>>>>,
          div |-> 8],
         blue |-> [taps |-> <<<<-2, 0, -3>>, <<-1, -1, 4>>, <<-1, 1, 4>>, <<0, -2, -3>>, <<0, 0, 12>>, <<0, 2, -3>>, <<1, -1, 4>>, <<1, 1, 4>>, <<2, 0, -3>>>>,
          div |-> 16]],
     rg_green |->
        [red |-> [taps |-> <<<<-2, 0, 1>>, <<-1, -1, -2>>, <<-1, 1, -2>>, <<0, -2, -2>>, <<0, -1, 8>>, <<0, 0, 10>>, <<0, 1, 8>>, <<0, 2, -2>>, <<1, -1, -2>>, <<1, 1, -2>>, <<2, 0, 1>>>>,
          div |-> 16],
         blue |-> [taps |-> <<<<-2, 0, -2>>, <<-1, -1, -2>>, <<-1, 0, 8>>, <<-1, 1, -2>>, <<0, -2, 1>>, <<0, 0, 10>>, <<0, 2, 1>>, <<1, -1, -2>>, <<1, 0, 8>>, <<1, 1, -2>>, <<2, 0, -2>>>>,
          div |-> 16]],
     gb_green |->
        [red |-> [taps |-> <<<<-2, 0, -2>>, <<-1, -1, -2>>, <<-1, 0, 8>>, <<-1, 1, -2>>, <<0, -2, 1>>, <<0, 0, 10>>, <<0, 2, 1>>, <<1, -1, -2>>, <<1, 0, 8>>, <<1, 1, -2>>, <<2, 0, -2>>>>,
          div |-> 16],
         blue |-> [taps |-> <<<<-2, 0, 1>>, <<-1, -1, -2>>, <<-1, 1, -2>>, <<0, -2, -2>>, <<0, -1, 8>>, <<0, 0, 10>>, <<0, 1, 8>>, <<0, 2, -2>>, <<1, -1, -2>>, <<1, 1, -2>>, <<2, 0, 1>>>>,
          div |-> 16]],
     gb_blue |->
        [red |-> [taps |-> <<<<-2, 0, -3>>, <<-1, -1, 4>>, <<-1, 1, 4>>, <<0, -2, -3>>, <<0, 0, 12>>, <<0, 2, -3>>, <<1, -1, 4>>, <<1, 1, 4>>, <<2, 0, -3>>>>,
          div |-> 16],
         green |-> [taps |-> <<<<-2, 0, -1>>, <<-1, 0, 2>>, <<0, -2, -1>>, <<0, -1, 2>>, <<0, 0, 4>>, <<0, 1, 2>>, <<0, 2, -1>>, <<1, 0, 2>>, <<2, 0, -1>>>>,
          div |-> 8]]
    ]

\* demosaic_malvar_row_mono8: the inlined GET_PIX stencils of the interior loop, by Bayer phase
\* and interpolated channel (lines 2000-2146)
kernels_row_mono8 ==
    [
     rg_red |->
        [green |-> [taps |-> <<<<-2, 0, -1>>, <<-1, 0, 2>>, <<0, -2, -1>>, <<0, -1, 2>>, <<0, 0, 4>>, <<0, 1, 2>>, <<0, 2, -1>>, <<1, 0, 2>>, <<2, 0, -1>>>>,
          div |-> 8],
         blue |-> [taps |-> <<<<-2, 0, -3>>, <<-1, -1, 4>>, <<-1, 1, 4>>, <<0, -2, -3>>, <<0, 0, 12>>, <<0, 2, -3>>, <<1, -1, 4>>, <<1, 1, 4>>, <<2, 0, -3>>>>,
          div |-> 16]],
     rg_green |->
        [red |-> [taps |-> <<<<-2, 0, 1>>, <<-1, -1, -2>>, <<-1, 1, -2>>, <<0, -2, -2>>, <<0, -1, 8>>, <<0, 0, 10>>, <<0, 1, 8>>, <<0, 2, -2>>, <<1, -1, -2>>, <<1, 1, -2>>, <<2, 0, 1>>>>,
          div |-> 16],
         blue |-> [taps |-> <<<<-2, 0, -2>>, <<-1, -1, -2>>, <<-1, 0, 8>>, <<-1, 1, -2>>, <<0, -2, 1>>, <<0, 0, 10>>, <<0, 2, 1>>, <<1, -1, -2>>, <<1, 0, 8>>, <<1, 1, -2>>, <<2, 0, -2>>>>,
          div |-> 16]],
     gb_green |->
        [red |-> [taps |-> <<<<-2, 0, -2>>, <<-1, -1, -2>>, <<-1, 0, 8>>, <<-1, 1, -2>>, <<0, -2, 1>>, <<0, 0, 10>>, <<0, 2, 1>>, <<1, -1, -2>>, <<1, 0, 8>>, <<1, 1, -2>>, <<2, 0, -2>>>>,
          div |-> 16],
         blue |-> [taps |-> <<<<-2, 0, 1>>, <<-1, -1, -2>>, <<-1, 1, -2>>, <<0, -2, -2>>, <<0, -1, 8>>, <<0, 0, 10>>, <<0, 1, 8>>, <<0, 2, -2>>, <<1, -1, -2>>, <<1, 1, -2>>, <<2, 0, 1>>>>,
          div |-> 16]],
     gb_blue |->
        [red |-> [taps |-> <<<<-2, 0, -3>>, <<-1, -1, 4>>, <<-1, 1, 4>>, <<0, -2, -3>>, <<0, 0, 12>>, <<0, 2, -3>>, <<1, -1, 4>>, <<1, 1, 4>>, <<2, 0, -3>>>>,
          div |-> 16],
         green |-> [taps |-> <<<<-2, 0, -1>>, <<-1, 0, 2>>, <<0, -2, -1>>, <<0, -1, 2>>, <<0, 0, 4>>, <<0, 1, 2>>, <<0, 2, -1>>, <<1, 0, 2>>, <<2, 0, -1>>>>,
          div |-> 8]]
    ]

\* demosaic_malvar_row_mono16to8: the inlined GET_PIX stencils of the interior loop, by Bayer phase
\* and interpolated channel (lines 2279-2439)
kernels_row_mono16to8 ==
    [
     rg_red |->
        [green |-> [taps |-> <<<<-2, 0, -1>>, <<-1, 0, 2>>, <<0, -2, -1>>, <<0, -1, 2>>, <<0, 0, 4>>, <<0, 1, 2>>, <<0, 2, -1>>, <<1, 0, 2>>, <<2, 0, -1>>>>,
          div |-> 8],
         blue |-> [taps |-> <<<<-2, 0, -3>>, <<-1, -1, 4>>, <<-1, 1, 4>>, <<0, -2, -3>>, <<0, 0, 12>>, <<0, 2, -3>>, <<1, -1, 4>>, <<1, 1, 4>>, <<2, 0, -3>>>>,
          div |-> 16]],
     rg_green |->
        [red |-> [taps |-> <<<<-2, 0, 1>>, <<-1, -1, -2>>, <<-1, 1, -2>>, <<0, -2, -2>>, <<0, -1, 8>>, <<0, 0, 10>>, <<0, 1, 8>>, <<0, 2, -2>>, <<1, -1, -2>>, <<1, 1, -2>>, <<2, 0, 1>>>>,
          div |-> 16],
         blue |-> [taps |-> <<<<-2, 0, -2>>, <<-1, -1, -2>>, <<-1, 0, 8>>, <<-1, 1, -2>>, <<0, -2, 1>>, <<0, 0, 10>>, <<0, 2, 1>>, <<1, -1, -2>>, <<1, 0, 8>>, <<1, 1, -2>>, <<2, 0, -2>>>>,
          div |-> 16]],
     gb_green |->
        [red |-> [taps |-> <<<<-2, 0, -2>>, <<-1, -1, -2>>, <<-1, 0, 8>>, <<-1, 1, -2>>, <<0, -2, 1>>, <<0, 0, 10>>, <<0, 2, 1>>, <<1, -1, -2>>, <<1, 0, 8>>, <<1, 1, -2>>, <<2, 0, -2>>>>,
          div |-> 16],
         blue |-> [taps |-> <<<<-2, 0, 1>>, <<-1, -1, -2>>, <<-1, 1, -2>>, <<0, -2, -2>>, <<0, -1, 8>>, <<0, 0, 10>>, <<0, 1, 8>>, <<0, 2, -2>>, <<1, -1, -2>>, <<1, 1, -2>>, <<2, 0, 1>>>>,
          div |-> 16]],
     gb_blue |->
        [red |-> [taps |-> <<<<-2, 0, -3>>, <<-1, -1, 4>>, <<-1, 1, 4>>, <<0, -2, -3>>, <<0, 0, 12>>, <<0, 2, -3>>, <<1, -1, 4>>, <<1, 1, 4>>, <<2, 0, -3>>>>,
          div |-> 16],
         green |-> [taps |-> <<<<-2, 0, -1>>, <<-1, 0, 2>>, <<0, -2, -1>>, <<0, -1, 2>>, <<0, 0, 4>>, <<0, 1, 2>>, <<0, 2, -1>>, <<1, 0, 2>>, <<2, 0, -1>>>>,
          div |-> 8]]
    ]

\* faulty variant: the taps' row and column offsets are exchanged
stencil_GET_PIX_transposed(k, b, ncol, r, c) ==
    CDiv(SeqSum([i \in 1..Len(k.taps) |->
                    GET_PIX(b, ncol, r + k.taps[i][2], c + k.taps[i][1])
                        * k.taps[i][3]]),
         k.div)

\* (sum of GET_PIX(bayer, ncol, row+dr, col+dc) * weight) / div, in an I32
stencil_GET_PIX(k, b, ncol, r, c) ==
    CDiv(SeqSum([i \in 1..Len(k.taps) |->
                    GET_PIX(b, ncol, r + k.taps[i][1], c + k.taps[i][2])
                        * k.taps[i][3]]),
         k.div)

\* faulty variant: a value between the limits is not shifted
narrow_unshifted(x, max_val, max_val_rshift, rshift) ==
    IF x >= max_val THEN max_val_rshift
    ELSE IF x <= 0 THEN 0 ELSE x

\* the 16-to-8 interior loops: (x >= max_val) ? max_val_rshift
\*                             : (x <= 0) ? 0 : (x >> rshift)
narrow(x, max_val, max_val_rshift, rshift) ==
    IF x >= max_val THEN max_val_rshift
    ELSE IF x <= 0 THEN 0 ELSE Shr(x, rshift)

\* demosaic_malvar_row_rgb16: the interior pixel at (r, c), 2 <= c < ncol - 2
\* each channel is stored in a U16 field
interior_row_rgb16(b, a, r, c) ==
    IF CMod(r, 2) = 0
    THEN IF c % 2 = 0
         THEN [red   |-> GET_PIX(b, a.n_cols, r, c),
              green |-> U16(DM_LIMIT(stencil_GET_PIX(kernels_row_rgb16.rg_red.green, b, a.n_cols, r, c), 0, a.max_val)),
              blue  |-> U16(DM_LIMIT(stencil_GET_PIX(kernels_row_rgb16.rg_red.blue, b, a.n_cols, r, c), 0, a.max_val))]
         ELSE [red   |-> U16(DM_LIMIT(stencil_GET_PIX(kernels_row_rgb16.rg_green.red, b, a.n_cols, r, c), 0, a.max_val)),
              green |-> GET_PIX(b, a.n_cols, r, c),
              blue  |-> U16(DM_LIMIT(stencil_GET_PIX(kernels_row_rgb16.rg_green.blue, b, a.n_cols, r, c), 0, a.max_val))]
    ELSE IF c % 2 = 0
         THEN [red   |-> U16(DM_LIMIT(stencil_GET_PIX(kernels_row_rgb16.gb_green.red, b, a.n_cols, r, c), 0, a.max_val)),
              green |-> GET_PIX(b, a.n_cols, r, c),
              blue  |-> U16(DM_LIMIT(stencil_GET_PIX(kernels_row_rgb16.gb_green.blue, b, a.n_cols, r, c), 0, a.max_val))]
         ELSE [red   |-> U16(DM_LIMIT(stencil_GET_PIX(kernels_row_rgb16.gb_blue.red, b, a.n_cols, r, c), 0, a.max_val)),
              green |-> U16(DM_LIMIT(stencil_GET_PIX(kernels_row_rgb16.gb_blue.green, b, a.n_cols, r, c), 0, a.max_val)),
              blue  |-> GET_PIX(b, a.n_cols, r, c)]

\* demosaic_malvar_row_rgb8: the interior pixel at (r, c), 2 <= c < ncol - 2
\* each channel is stored in a U8 field
interior_row_rgb8(b, a, r, c) ==
    IF CMod(r, 2) = 0
    THEN IF c % 2 = 0
         THEN [red   |-> GET_PIX(b, a.n_cols, r, c),
              green |-> U8(DM_LIMIT(stencil_GET_PIX(kernels_row_rgb8.rg_red.green, b, a.n_cols, r, c), 0, a.max_val)),
              blue  |-> U8(DM_LIMIT(stencil_GET_PIX(kernels_row_rgb8.rg_red.blue, b, a.n_cols, r, c), 0, a.max_val))]
         ELSE [red   |-> U8(DM_LIMIT(stencil_GET_PIX(kernels_row_rgb8.rg_green.red, b, a.n_cols, r, c), 0, a.max_val)),
              green |-> GET_PIX(b, a.n_cols, r, c),
              blue  |-> U8(DM_LIMIT(stencil_GET_PIX(kernels_row_rgb8.rg_green.blue, b, a.n_cols, r, c), 0, a.max_val))]
    ELSE IF c % 2 = 0
         THEN [red   |-> U8(DM_LIMIT(stencil_GET_PIX(kernels_row_rgb8.gb_green.red, b, a.n_cols, r, c), 0, a.max_val)),
              green |-> GET_PIX(b, a.n_cols, r, c),
              blue  |-> U8(DM_LIMIT(stencil_GET_PIX(kernels_row_rgb8.gb_green.blue, b, a.n_cols, r, c), 0, a.max_val))]
         ELSE [red   |-> U8(DM_LIMIT(stencil_GET_PIX(kernels_row_rgb8.gb_blue.red, b, a.n_cols, r, c), 0, a.max_val)),
              green |-> U8(DM_LIMIT(stencil_GET_PIX(kernels_row_rgb8.gb_blue.green, b, a.n_cols, r, c), 0, a.max_val)),
              blue  |-> GET_PIX(b, a.n_cols, r, c)]

\* demosaic_malvar_row_rgb16to8: the interior pixel at (r, c), 2 <= c < ncol - 2
\* each channel is stored in a U8 field; max_val_rshift is a U8
interior_row_rgb16to8(b, a, r, c) ==
    IF CMod(r, 2) = 0
    THEN IF c % 2 = 0
         THEN [red   |-> U8(Shr(GET_PIX(b, a.n_cols, r, c), a.rshift)),
              green |-> U8(narrow(stencil_GET_PIX(kernels_row_rgb16to8.rg_red.green, b, a.n_cols, r, c),
                       a.max_val, U8(Shr(a.max_val, a.rshift)), a.rshift)),
              blue  |-> U8(narrow(stencil_GET_PIX(kernels_row_rgb16to8.rg_red.blue, b, a.n_cols, r, c),
                       a.max_val, U8(Shr(a.max_val, a.rshift)), a.rshift))]
         ELSE [red   |-> U8(narrow(stencil_GET_PIX(kernels_row_rgb16to8.rg_green.red, b, a.n_cols, r, c),
                       a.max_val, U8(Shr(a.max_val, a.rshift)), a.rshift)),
              green |-> U8(Shr(GET_PIX(b, a.n_cols, r, c), a.rshift)),
              blue  |-> U8(narrow(stencil_GET_PIX(kernels_row_rgb16to8.rg_green.blue, b, a.n_cols, r, c),
                       a.max_val, U8(Shr(a.max_val, a.rshift)), a.rshift))]
    ELSE IF c % 2 = 0
         THEN [red   |-> U8(narrow(stencil_GET_PIX(kernels_row_rgb16to8.gb_green.red, b, a.n_cols, r, c),
                       a.max_val, U8(Shr(a.max_val, a.rshift)), a.rshift)),
              green |-> U8(Shr(GET_PIX(b, a.n_cols, r, c), a.rshift)),
              blue  |-> U8(narrow(stencil_GET_PIX(kernels_row_rgb16to8.gb_green.blue, b, a.n_cols, r, c),
                       a.max_val, U8(Shr(a.max_val, a.rshift)), a.rshift))]
         ELSE [red   |-> U8(narrow(stencil_GET_PIX(kernels_row_rgb16to8.gb_blue.red, b, a.n_cols, r, c),
                       a.max_val, U8(Shr(a.max_val, a.rshift)), a.rshift)),
              green |-> U8(narrow(stencil_GET_PIX(kernels_row_rgb16to8.gb_blue.green, b, a.n_cols, r, c),
                       a.max_val, U8(Shr(a.max_val, a.rshift)), a.rshift)),
              blue  |-> U8(Shr(GET_PIX(b, a.n_cols, r, c), a.rshift))]

\* faulty variant: the fast path hands red and blue to the luma sum swapped
interior_row_mono16_bgr(b, a, r, c) ==
    [red   |-> interior_row_rgb16(b, a, r, c).blue,
     green |-> interior_row_rgb16(b, a, r, c).green,
     blue  |-> interior_row_rgb16(b, a, r, c).red]

\* demosaic_malvar_row_mono16: the interior pixel at (r, c), 2 <= c < ncol - 2
\* red, green and blue are I32 locals
interior_row_mono16(b, a, r, c) ==
    IF CMod(r, 2) = 0
    THEN IF c % 2 = 0
         THEN [red   |-> GET_PIX(b, a.n_cols, r, c),
              green |-> DM_LIMIT(stencil_GET_PIX(kernels_row_mono16.rg_red.green, b, a.n_cols, r, c), 0, a.max_val),
              blue  |-> DM_LIMIT(stencil_GET_PIX(kernels_row_mono16.rg_red.blue, b, a.n_cols, r, c), 0, a.max_val)]
         ELSE [red   |-> DM_LIMIT(stencil_GET_PIX(kernels_row_mono16.rg_green.red, b, a.n_cols, r, c), 0, a.max_val),
              green |-> GET_PIX(b, a.n_cols, r, c),
              blue  |-> DM_LIMIT(stencil_GET_PIX(kernels_row_mono16.rg_green.blue, b, a.n_cols, r, c), 0, a.max_val)]
    ELSE IF c % 2 = 0
         THEN [red   |-> DM_LIMIT(stencil_GET_PIX(kernels_row_mono16.gb_green.red, b, a.n_cols, r, c), 0, a.max_val),
              green |-> GET_PIX(b, a.n_cols, r, c),
              blue  |-> DM_LIMIT(stencil_GET_PIX(kernels_row_mono16.gb_green.blue, b, a.n_cols, r, c), 0, a.max_val)]
         ELSE [red   |-> DM_LIMIT(stencil_GET_PIX(kernels_row_mono16.gb_blue.red, b, a.n_cols, r, c), 0, a.max_val),
              green |-> DM_LIMIT(stencil_GET_PIX(kernels_row_mono16.gb_blue.green, b, a.n_cols, r, c), 0, a.max_val),
              blue  |-> GET_PIX(b, a.n_cols, r, c)]

\* demosaic_malvar_row_mono8: the interior pixel at (r, c), 2 <= c < ncol - 2
\* red, green and blue are I32 locals
interior_row_mono8(b, a, r, c) ==
    IF CMod(r, 2) = 0
    THEN IF c % 2 = 0
         THEN [red   |-> GET_PIX(b, a.n_cols, r, c),
              green |-> DM_LIMIT(stencil_GET_PIX(kernels_row_mono8.rg_red.green, b, a.n_cols, r, c), 0, a.max_val),
              blue  |-> DM_LIMIT(stencil_GET_PIX(kernels_row_mono8.rg_red.blue, b, a.n_cols, r, c), 0, a.max_val)]
         ELSE [red   |-> DM_LIMIT(stencil_GET_PIX(kernels_row_mono8.rg_green.red, b, a.n_cols, r, c), 0, a.max_val),
              green |-> GET_PIX(b, a.n_cols, r, c),
              blue  |-> DM_LIMIT(stencil_GET_PIX(kernels_row_mono8.rg_green.blue, b, a.n_cols, r, c), 0, a.max_val)]
    ELSE IF c % 2 = 0
         THEN [red   |-> DM_LIMIT(stencil_GET_PIX(kernels_row_mono8.gb_green.red, b, a.n_cols, r, c), 0, a.max_val),
              green |-> GET_PIX(b, a.n_cols, r, c),
              blue  |-> DM_LIMIT(stencil_GET_PIX(kernels_row_mono8.gb_green.blue, b, a.n_cols, r, c), 0, a.max_val)]
         ELSE [red   |-> DM_LIMIT(stencil_GET_PIX(kernels_row_mono8.gb_blue.red, b, a.n_cols, r, c), 0, a.max_val),
              green |-> DM_LIMIT(stencil_GET_PIX(kernels_row_mono8.gb_blue.green, b, a.n_cols, r, c), 0, a.max_val),
              blue  |-> GET_PIX(b, a.n_cols, r, c)]

\* demosaic_malvar_row_mono16to8: the interior pixel at (r, c), 2 <= c < ncol - 2
\* red, green and blue are I32 locals; max_val_rshift is a U8
interior_row_mono16to8(b, a, r, c) ==
    IF CMod(r, 2) = 0
    THEN IF c % 2 = 0
         THEN [red   |-> Shr(GET_PIX(b, a.n_cols, r, c), a.rshift),
              green |-> narrow(stencil_GET_PIX(kernels_row_mono16to8.rg_red.green, b, a.n_cols, r, c),
                    a.max_val, U8(Shr(a.max_val, a.rshift)), a.rshift),
              blue  |-> narrow(stencil_GET_PIX(kernels_row_mono16to8.rg_red.blue, b, a.n_cols, r, c),
                    a.max_val, U8(Shr(a.max_val, a.rshift)), a.rshift)]
         ELSE [red   |-> narrow(stencil_GET_PIX(kernels_row_mono16to8.rg_green.red, b, a.n_cols, r, c),
                    a.max_val, U8(Shr(a.max_val, a.rshift)), a.rshift),
              green |-> Shr(GET_PIX(b, a.n_cols, r, c), a.rshift),
              blue  |-> narrow(stencil_GET_PIX(kernels_row_mono16to8.rg_green.blue, b, a.n_cols, r, c),
                    a.max_val, U8(Shr(a.max_val, a.rshift)), a.rshift)]
    ELSE IF c % 2 = 0
         THEN [red   |-> narrow(stencil_GET_PIX(kernels_row_mono16to8.gb_green.red, b, a.n_cols, r, c),
                    a.max_val, U8(Shr(a.max_val, a.rshift)), a.rshift),
              green |-> Shr(GET_PIX(b, a.n_cols, r, c), a.rshift),
              blue  |-> narrow(stencil_GET_PIX(kernels_row_mono16to8.gb_green.blue, b, a.n_cols, r, c),
                    a.max_val, U8(Shr(a.max_val, a.rshift)), a.rshift)]
         ELSE [red   |-> narrow(stencil_GET_PIX(kernels_row_mono16to8.gb_blue.red, b, a.n_cols, r, c),
                    a.max_val, U8(Shr(a.max_val, a.rshift)), a.rshift),
              green |-> narrow(stencil_GET_PIX(kernels_row_mono16to8.gb_blue.green, b, a.n_cols, r, c),
                    a.max_val, U8(Shr(a.max_val, a.rshift)), a.rshift),
              blue  |-> Shr(GET_PIX(b, a.n_cols, r, c), a.rshift)]

---------------------------------------------------------------------------
(* The twelve public entry points and the six private row functions *)

Variants == {"rgb16", "rgb8", "rgb16to8", "mono16", "mono8", "mono16to8"}

RGBVariants == {"rgb16", "rgb8", "rgb16to8"}

MonoVariants == {"mono16", "mono8", "mono16to8"}

\* variants whose bayer buffer holds U8 samples
In8Variants == {"rgb8", "mono8"}

\* "image": demosaic_malvar_<v>; "row": demosaic_malvar_row_<v>;
\* "unopt": demosaic_malvar_row_<v>_unoptimized
Kinds == {"image", "row", "unopt"}

checks_unoptimized(v, p, a, r) ==
    CASE v = "rgb16"     -> checks_row_rgb16_unoptimized(p, a, r)
      [] v = "rgb8"      -> checks_row_rgb8_unoptimized(p, a, r)
      [] v = "rgb16to8"  -> checks_row_rgb16to8_unoptimized(p, a, r)
      [] v = "mono16"    -> checks_row_mono16_unoptimized(p, a, r)
      [] v = "mono8"     -> checks_row_mono8_unoptimized(p, a, r)
      [] v = "mono16to8" -> checks_row_mono16to8_unoptimized(p, a, r)

checks_row(v, p, a, r) ==
    CASE v = "rgb16"     -> checks_row_rgb16(p, a, r)
      [] v = "rgb8"      -> checks_row_rgb8(p, a, r)
      [] v = "rgb16to8"  -> checks_row_rgb16to8(p, a, r)
      [] v = "mono16"    -> checks_row_mono16(p, a, r)
      [] v = "mono8"     -> checks_row_mono8(p, a, r)
      [] v = "mono16to8" -> checks_row_mono16to8(p, a, r)

checks_image(v, p, a) ==
    CASE v = "rgb16"     -> checks_rgb16(p, a)
      [] v = "rgb8"      -> checks_rgb8(p, a)
      [] v = "rgb16to8"  -> checks_rgb16to8(p, a)
      [] v = "mono16"    -> checks_mono16(p, a)
      [] v = "mono8"     -> checks_mono8(p, a)
      [] v = "mono16to8" -> checks_mono16to8(p, a)

pixel_unoptimized(v, b, a, r, c) ==
    CASE v = "rgb16"     -> pixel_row_rgb16_unoptimized(b, a, r, c)
      [] v = "rgb8"      -> pixel_row_rgb8_unoptimized(b, a, r, c)
      [] v = "rgb16to8"  -> pixel_row_rgb16to8_unoptimized(b, a, r, c)
      [] v = "mono16"    -> pixel_row_mono16_unoptimized(b, a, r, c)
      [] v = "mono8"     -> pixel_row_mono8_unoptimized(b, a, r, c)
      [] v = "mono16to8" -> pixel_row_mono16to8_unoptimized(b, a, r, c)

pixel_edge(v, b, a, r, c) ==
    CASE v = "rgb16"     -> edge_row_rgb16(b, a, r, c)
      [] v = "rgb8"      -> edge_row_rgb8(b, a, r, c)
      [] v = "rgb16to8"  -> edge_row_rgb16to8(b, a, r, c)
      [] v = "mono16"    -> edge_row_mono16(b, a, r, c)
      [] v = "mono8"     -> edge_row_mono8(b, a, r, c)
      [] v = "mono16to8" -> edge_row_mono16to8(b, a, r, c)

pixel_interior(v, b, a, r, c) ==
    CASE v = "rgb16"     -> interior_row_rgb16(b, a, r, c)
      [] v = "rgb8"      -> interior_row_rgb8(b, a, r, c)
      [] v = "rgb16to8"  -> interior_row_rgb16to8(b, a, r, c)
      [] v = "mono16"    -> interior_row_mono16(b, a, r, c)
      [] v = "mono8"     -> interior_row_mono8(b, a, r, c)
      [] v = "mono16to8" -> interior_row_mono16to8(b, a, r, c)

\* the largest value of an output sample's type: U16 for mono16, else U8
out_type_max(v) == IF v = "mono16" THEN 65535 ELSE U8_MAX

\* The values output_row[col] can take when the triple t is stored.  The RGB
\* variants store the triple.  The mono variants store the F64 luma in an
\* integer sample; when the luma exceeds the sample type the conversion is
\* undefined and the build either wraps or saturates.
stored(v, a, t) ==
    IF v \in RGBVariants THEN {t}
    ELSE IF luma(a, t) <= out_type_max(v) THEN {luma(a, t)}
    ELSE {luma(a, t) % (out_type_max(v) + 1), out_type_max(v)}

---------------------------------------------------------------------------
(* State *)

zero_rgb == [red |-> 0, green |-> 0, blue |-> 0]

\* content of an output element no call has written yet
unwritten(v) == IF v \in RGBVariants THEN [red |-> -1, green |-> -1, blue |-> -1]
                ELSE -1

\* faulty variant: the slice of a row starts at row * n_rows
Base_row_times_n_rows == IF fn.kind = "image" THEN row * args.n_rows ELSE 0

\* output_row is &output[row * n_cols] in an image function and the
\* caller's buffer in a row function
Base == IF fn.kind = "image" THEN row * args.n_cols ELSE 0

\* faulty variant: the failing assertion clears the row count of the
\* arguments
fatal_clears_n_rows(name) ==
    /\ pc' = "fatal"
    /\ err' = name
    /\ args' = [args EXCEPT !.n_rows = 0]
    /\ UNCHANGED <<worker, pending, fn, ptr, bayer, row, col, output, written,
                   rgb>>

fatal(name) ==
    /\ pc' = "fatal"
    /\ err' = name
    /\ UNCHANGED <<worker, pending, fn, ptr, bayer, args, row, col, output, written, rgb>>

\* faulty variant: the row loop of the image function does not advance
return_row_same_row ==
    IF fn.kind = "image"
    THEN /\ pc' = "image_loop"
         /\ row' = row
    ELSE /\ pc' = "done"
         /\ row' = row

\* return of a row function: to the caller's row loop or to the caller
return_row ==
    IF fn.kind = "image"
    THEN /\ pc' = "image_loop"
         /\ row' = row + 1
    ELSE /\ pc' = "done"
         /\ row' = row

\* faulty variant: the last column is not stored, the element keeps what
\* the buffer held
write_not_last_column(t) ==
    /\ \E val \in stored(fn.v, args, t) :
           output' = IF col = args.n_cols - 1 THEN output
                     ELSE [output EXCEPT ![Base + col] = val]
    /\ written' = written \cup {Base + col}
    /\ rgb' = IF fn.v \in MonoVariants THEN t ELSE rgb

\* output_row[col] = the value of triple t
write(t) ==
    \E pix \in {t} :
        /\ \E val \in stored(fn.v, args, pix) :
               output' = [output EXCEPT ![Base + col] = val]
        /\ written' = written \cup {Base + col}
        /\ rgb' = IF fn.v \in MonoVariants THEN pix ELSE rgb

---------------------------------------------------------------------------
(* Calls: the inputs of one call of one entry point *)

\* ccir 601 luma, in thousandths
ccir601 == [red |-> 299, green |-> 587, blue |-> 114]

\* the largest sample the bayer buffer's type holds
in_type_max(v) == IF v \in In8Variants THEN U8_MAX ELSE 65535

\* bit-depth settings every variant accepts: 12-bit data narrowed by 4 bits
\* for 16-bit input, 7-bit data for 8-bit input
primary(v) ==
    IF v \in In8Variants
    THEN [max_val |-> 127, rshift |-> 0, coefs |-> ccir601]
    ELSE [max_val |-> 4095, rshift |-> 4, coefs |-> ccir601]

\* bit-depth and coefficient settings around each assertion's limit
Settings ==
    {[max_val |-> ms[1], rshift |-> ms[2], coefs |-> ccir601] :
        ms \in {<<255, 0>>, <<256, 0>>, <<4095, 4>>, <<4095, 3>>,
                <<4095, -1>>, <<65535, 8>>}}
    \cup
    {[max_val |-> 255, rshift |-> 0, coefs |-> k] :
        k \in {[red |-> 0, green |-> 0, blue |-> 0],
               [red |-> 1000, green |-> 1000, blue |-> 1000],
               [red |-> 1000, green |-> 0, blue |-> 0],
               [red |-> 0, green |-> 0, blue |-> 1],
               [red |-> 1, green |-> 1, blue |-> 1],
               [red |-> 1000, green |-> 1000, blue |-> 0],
               [red |-> -1, green |-> 587, blue |-> 114],
               [red |-> 1001, green |-> 587, blue |-> 114],
               [red |-> 299, green |-> -1, blue |-> 114],
               [red |-> 299, green |-> 1001, blue |-> 114],
               [red |-> 299, green |-> 587, blue |-> -1],
               [red |-> 299, green |-> 587, blue |-> 1001]}}

mk_args(nr, nc, s) ==
    [n_rows |-> nr, n_cols |-> nc, max_val |-> s.max_val,
     rshift |-> s.rshift, coefs |-> s.coefs]

\* which of the three pointer arguments are non-NULL
AllValid == [bayer |-> TRUE, args |-> TRUE, output |-> TRUE]

Pointers ==
    {AllValid,
     [bayer |-> FALSE, args |-> TRUE, output |-> TRUE],
     [bayer |-> TRUE, args |-> FALSE, output |-> TRUE],
     [bayer |-> TRUE, args |-> TRUE, output |-> FALSE]}

\* number of samples of a bayer buffer of the given dimensions
n_pix(nr, nc) == IF nr >= 1 /\ nc >= 1 THEN nr * nc ELSE 0

\* every sample is x
uniform(nr, nc, x) == [i \in 0..(n_pix(nr, nc) - 1) |-> x]

\* every sample is bg but the one at index pos, which is imp
impulse(nr, nc, bg, imp, pos) ==
    [i \in 0..(n_pix(nr, nc) - 1) |-> IF i = pos THEN imp ELSE bg]

\* RGGB mosaic of one colour: red at even row and even column, blue at odd
\* row and odd column, green elsewhere
make_single_color_input(nr, nc, red, green, blue) ==
    [i \in 0..(n_pix(nr, nc) - 1) |->
        LET r == i \div nc
            c == i % nc
        IN  IF r % 2 = 0 /\ c % 2 = 0 THEN red
            ELSE IF r % 2 = 1 /\ c % 2 = 1 THEN blue
            ELSE green]

\* the callers of the row function, and a caller between two calls
Workers == {"a", "b"}

idle == [pc |-> "idle", row |-> 0, col |-> 0]

\* the state at the call of entry point (kind, v)
start(v, kind, a, r, p, img) ==
    /\ fn = [kind |-> kind, v |-> v]
    /\ ptr = p
    /\ bayer = img
    /\ args = a
    /\ row = IF kind = "image" THEN 0 ELSE r
    /\ col = 0
    /\ output = [i \in 0..((IF kind = "image" THEN n_pix(a.n_rows, a.n_cols)
                            ELSE n_pix(1, a.n_cols)) - 1) |-> unwritten(v)]
    /\ written = {}
    /\ rgb = zero_rgb
    /\ pc = CASE kind = "image" -> "call_image"
              [] kind = "row"   -> "call_row"
              [] kind = "unopt" -> "call_unopt"
    /\ err = ""
    /\ worker = [w \in Workers |-> idle]
    /\ pending = {}

\* calls with any dimensions, row and pointers, and calls with valid
\* dimensions and any setting
InitValidation ==
    \E v \in Variants, kind \in Kinds :
        \/ \E nr \in -1..MaxRows, nc \in -1..MaxCols, r \in -1..MaxRows,
              p \in Pointers :
               start(v, kind, mk_args(nr, nc, primary(v)), r, p,
                     uniform(nr, nc, 100))
        \/ \E d \in {<<2, 2>>, <<6, 6>>}, s \in Settings :
           \E r \in 0..(d[1] - 1) :
               start(v, kind, mk_args(d[1], d[2], s), r, AllValid,
                     uniform(d[1], d[2], 100))

\* the largest valid dimensions within the bounds
ContentRows == 2 * (MaxRows \div 2)

ContentCols == 2 * (MaxCols \div 2)

\* sample levels of the content images: black, mid grey, white (max_val)
Levels(v) == {0, primary(v).max_val \div 2, primary(v).max_val}

\* one sample differs from the rest: black on mid grey, white on black,
\* black on white, and a sample above max_val on black
Impulses(v) ==
    {impulse(ContentRows, ContentCols, bi[1], bi[2], pos) :
        bi \in {<<primary(v).max_val \div 2, 0>>,
                <<0, primary(v).max_val>>,
                <<primary(v).max_val, 0>>,
                <<0, in_type_max(v)>>},
        pos \in 0..(ContentRows * ContentCols - 1)}

SingleColors(v) ==
    {make_single_color_input(ContentRows, ContentCols, R, G, B) :
        R \in Levels(v), G \in Levels(v), B \in Levels(v)}

\* an image of samples rand() % max_val: the sequence of rand() is modelled
\* by a fixed sequence that depends on the seed
make_random_input(nr, nc, max_val, seed) ==
    [i \in 0..(n_pix(nr, nc) - 1) |-> ((i + seed) * 2659) % max_val]

\* calls with valid arguments on images with content
InitContent ==
    \E v \in Variants :
        \/ \E kind \in {"row", "unopt"}, r \in 0..(ContentRows - 1),
              img \in Impulses(v) \cup SingleColors(v) :
               start(v, kind, mk_args(ContentRows, ContentCols, primary(v)),
                     r, AllValid, img)
        \/ \E img \in SingleColors(v)
                       \cup {make_random_input(ContentRows, ContentCols,
                                               primary(v).max_val, seed) :
                                 seed \in {1, 2}} :
               start(v, "image",
                     mk_args(ContentRows, ContentCols, primary(v)),
                     0, AllValid, img)
        \/ \E nr \in 2..MaxRows, nc \in 2..MaxCols, kind \in Kinds :
           \E r \in 0..(nr - 1) :
               /\ nr % 2 = 0 /\ nc % 2 = 0
               /\ start(v, kind, mk_args(nr, nc, primary(v)), r, AllValid,
                        make_single_color_input(nr, nc, primary(v).max_val,
                                                primary(v).max_val \div 2, 0))

---------------------------------------------------------------------------
(* Steps *)

\* demosaic_malvar_<v>: the assertions, then the row loop starts at row 0
demosaic_malvar ==
    /\ pc = "call_image"
    /\ IF checks_image(fn.v, ptr, args) # ""
       THEN fatal(checks_image(fn.v, ptr, args))
       ELSE /\ pc' = "image_loop"
            /\ row' = 0
            /\ UNCHANGED <<worker, pending, fn, ptr, bayer, args, col, output, written, rgb, err>>

\* for (row = 0; row < args->n_rows; row++): call the row function or return
image_loop ==
    /\ pc = "image_loop"
    /\ pc' = IF row < args.n_rows THEN "call_row" ELSE "done"
    /\ UNCHANGED <<worker, pending, fn, ptr, bayer, args, row, col, output, written, rgb, err>>

\* faulty variant: only the top two rows go to the unoptimized function
demosaic_malvar_row_top_only ==
    /\ pc = "call_row"
    /\ IF ~ptr.args THEN fatal("args")
       ELSE IF row < 2
       THEN /\ pc' = "call_unopt"
            /\ UNCHANGED <<worker, pending, fn, ptr, bayer, args, row, col,
                           output, written, rgb, err>>
       ELSE IF checks_row(fn.v, ptr, args, row) # ""
       THEN fatal(checks_row(fn.v, ptr, args, row))
       ELSE /\ pc' = "left"
            /\ col' = 0
            /\ rgb' = zero_rgb
            /\ UNCHANGED <<worker, pending, fn, ptr, bayer, args, row, output,
                           written, err>>

\* demosaic_malvar_row_<v>: top and bottom two rows go to the unoptimized
\* function; a middle row is checked and starts at its left edge
demosaic_malvar_row ==
    /\ pc = "call_row"
    /\ IF ~ptr.args THEN fatal("args")
       ELSE IF row < 2 \/ row >= args.n_rows - 2
       THEN /\ pc' = "call_unopt"
            /\ UNCHANGED <<worker, pending, fn, ptr, bayer, args, row, col, output, written,
                           rgb, err>>
       ELSE IF checks_row(fn.v, ptr, args, row) # ""
       THEN fatal(checks_row(fn.v, ptr, args, row))
       ELSE /\ pc' = "left"
            /\ col' = 0
            /\ rgb' = zero_rgb
            /\ UNCHANGED <<worker, pending, fn, ptr, bayer, args, row, output, written, err>>

\* demosaic_malvar_row_<v>_unoptimized: the assertions, then col = 0
demosaic_malvar_row_unoptimized ==
    /\ pc = "call_unopt"
    /\ IF checks_unoptimized(fn.v, ptr, args, row) # ""
       THEN fatal(checks_unoptimized(fn.v, ptr, args, row))
       ELSE /\ pc' = "unopt_loop"
            /\ col' = 0
            /\ rgb' = zero_rgb
            /\ UNCHANGED <<worker, pending, fn, ptr, bayer, args, row, output, written, err>>

\* one pixel of while (col < ncol) { pixel; ++col; pixel; ++col; }
unoptimized_pixel ==
    /\ pc = "unopt_loop"
    /\ col % 2 = 1 \/ col < args.n_cols
    /\ write(pixel_unoptimized(fn.v, bayer, args, row, col))
    /\ col' = col + 1
    /\ UNCHANGED <<worker, pending, fn, ptr, bayer, args, row, pc, err>>

\* col < ncol is false: the unoptimized row function returns
unoptimized_return ==
    /\ pc = "unopt_loop"
    /\ col % 2 = 0 /\ ~(col < args.n_cols)
    /\ return_row
    /\ UNCHANGED <<worker, pending, fn, ptr, bayer, args, col, output, written, rgb, err>>

\* at left edge, use safe helpers: columns 0 and 1, then col = 2
left_edge ==
    /\ pc = "left"
    /\ write(pixel_edge(fn.v, bayer, args, row, col))
    /\ col' = col + 1
    /\ pc' = IF col = 1 THEN "interior" ELSE "left"
    /\ UNCHANGED <<worker, pending, fn, ptr, bayer, args, row, err>>

\* faulty variant: the fast-path loop runs while col < ncol - 1
interior_pixel_to_last_column ==
    /\ pc = "interior"
    /\ col % 2 = 1 \/ col < args.n_cols - 1
    /\ write(pixel_interior(fn.v, bayer, args, row, col))
    /\ col' = col + 1
    /\ UNCHANGED <<worker, pending, fn, ptr, bayer, args, row, pc, err>>

\* one pixel of while (col < ncol - 2) { pixel; ++col; pixel; ++col; }
interior_pixel ==
    /\ pc = "interior"
    /\ col % 2 = 1 \/ col < args.n_cols - 2
    /\ write(pixel_interior(fn.v, bayer, args, row, col))
    /\ col' = col + 1
    /\ UNCHANGED <<worker, pending, fn, ptr, bayer, args, row, pc, err>>

\* faulty variant: the right edge starts at column ncol - 1
interior_exit_skips_column ==
    /\ pc = "interior"
    /\ col % 2 = 0 /\ ~(col < args.n_cols - 2)
    /\ pc' = "right"
    /\ col' = args.n_cols - 1
    /\ UNCHANGED <<worker, pending, fn, ptr, bayer, args, row, output, written,
                   rgb, err>>

\* col < ncol - 2 is false: the right edge is next, at column ncol - 2
interior_exit ==
    /\ pc = "interior"
    /\ col % 2 = 0 /\ ~(col < args.n_cols - 2)
    /\ pc' = "right"
    /\ col' = args.n_cols - 2
    /\ UNCHANGED <<worker, pending, fn, ptr, bayer, args, row, output, written, rgb, err>>

\* at right edge, use safe helpers: columns ncol-2 and ncol-1, then return
right_edge ==
    /\ pc = "right"
    /\ write(pixel_edge(fn.v, bayer, args, row, col))
    /\ IF col = args.n_cols - 1
       THEN return_row /\ col' = col
       ELSE col' = col + 1 /\ pc' = pc /\ row' = row
    /\ UNCHANGED <<worker, pending, fn, ptr, bayer, args, err>>

Init == InitValidation

Next ==
    \/ demosaic_malvar
    \/ image_loop
    \/ demosaic_malvar_row
    \/ demosaic_malvar_row_unoptimized
    \/ unoptimized_pixel
    \/ unoptimized_return
    \/ left_edge
    \/ interior_pixel
    \/ interior_exit
    \/ right_edge

Spec == Init /\ [][Next]_vars

SpecContent == InitContent /\ [][Next]_vars

---------------------------------------------------------------------------
(* Concurrent callers: each takes rows nobody has taken, in any order, and *)
(* calls demosaic_malvar_row_<v> with the row's slice of one image-sized   *)
(* output buffer; the callers' pixel steps interleave.                     *)

\* faulty variant: the slice of a row starts at row * n_rows
slice_start_n_rows(a, r) == r * a.n_rows

\* the caller passes &output[row * n_cols] as output_row
slice_start(a, r) == r * a.n_cols

\* valid arguments, an image with content, every row still to be taken
InitWorkers ==
    \E v \in Variants :
        /\ fn = [kind |-> "row", v |-> v]
        /\ ptr = AllValid
        /\ args = mk_args(ContentRows, ContentCols, primary(v))
        /\ bayer = make_random_input(ContentRows, ContentCols,
                                     primary(v).max_val, 1)
        /\ row = 0 /\ col = 0 /\ rgb = zero_rgb
        /\ output = [i \in 0..(n_pix(ContentRows, ContentCols) - 1)
                        |-> unwritten(v)]
        /\ written = {}
        /\ pc = "workers" /\ err = ""
        /\ worker = [w \in Workers |-> idle]
        /\ pending = 0..(ContentRows - 1)

\* output_row[col] = the value of triple t, in the slice of the caller's row
worker_write(w, t) ==
    LET i == slice_start(args, worker[w].row) + worker[w].col
    IN  /\ \E val \in stored(fn.v, args, t) :
               output' = [output EXCEPT ![i] = val]
        /\ written' = written \cup {i}

\* caller w takes a row and calls demosaic_malvar_row_<v>: the assertions
\* hold, and the row starts in the unoptimized function or at the left edge
worker_call_row(w) ==
    /\ worker[w].pc = "idle"
    /\ \E r \in pending :
           LET unopt == r < 2 \/ r >= args.n_rows - 2
           IN  /\ IF unopt THEN checks_unoptimized(fn.v, ptr, args, r) = ""
                  ELSE checks_row(fn.v, ptr, args, r) = ""
               /\ worker' = [worker EXCEPT ![w] =
                                [pc  |-> IF unopt THEN "unopt_loop" ELSE "left",
                                 row |-> r,
                                 col |-> 0]]
               /\ pending' = pending \ {r}
    /\ UNCHANGED <<fn, ptr, bayer, args, row, col, output, written, rgb, pc,
                   err>>

\* one pixel of the unoptimized function's loop; it returns after ncol
worker_unoptimized_pixel(w) ==
    /\ worker[w].pc = "unopt_loop"
    /\ worker_write(w, pixel_unoptimized(fn.v, bayer, args, worker[w].row,
                                         worker[w].col))
    /\ worker' = [worker EXCEPT ![w] =
                     IF (@.col + 1) % 2 = 0 /\ ~(@.col + 1 < args.n_cols)
                     THEN idle
                     ELSE [@ EXCEPT !.col = @ + 1]]
    /\ UNCHANGED <<fn, ptr, bayer, args, row, col, rgb, pc, err, pending>>

\* one pixel of the left or right edge of a middle row
worker_edge_pixel(w) ==
    /\ worker[w].pc \in {"left", "right"}
    /\ worker_write(w, pixel_edge(fn.v, bayer, args, worker[w].row,
                                  worker[w].col))
    /\ worker' = [worker EXCEPT ![w] =
                     IF @.pc = "left" /\ @.col = 0
                     THEN [@ EXCEPT !.col = 1]
                     ELSE IF @.pc = "left" /\ 2 < args.n_cols - 2
                     THEN [@ EXCEPT !.pc = "interior", !.col = 2]
                     ELSE IF @.pc = "left"
                     THEN [@ EXCEPT !.pc = "right", !.col = args.n_cols - 2]
                     ELSE IF @.col = args.n_cols - 1
                     THEN idle
                     ELSE [@ EXCEPT !.col = @ + 1]]
    /\ UNCHANGED <<fn, ptr, bayer, args, row, col, rgb, pc, err, pending>>

\* one pixel of the fast path; the right edge follows at column ncol - 2
worker_interior_pixel(w) ==
    /\ worker[w].pc = "interior"
    /\ worker_write(w, pixel_interior(fn.v, bayer, args, worker[w].row,
                                      worker[w].col))
    /\ worker' = [worker EXCEPT ![w] =
                     IF (@.col + 1) % 2 = 0 /\ ~(@.col + 1 < args.n_cols - 2)
                     THEN [@ EXCEPT !.pc = "right", !.col = args.n_cols - 2]
                     ELSE [@ EXCEPT !.col = @ + 1]]
    /\ UNCHANGED <<fn, ptr, bayer, args, row, col, rgb, pc, err, pending>>

NextWorkers ==
    \E w \in Workers :
        \/ worker_call_row(w)
        \/ worker_unoptimized_pixel(w)
        \/ worker_edge_pixel(w)
        \/ worker_interior_pixel(w)

SpecWorkers == InitWorkers /\ [][NextWorkers]_vars

---------------------------------------------------------------------------
(* Successive calls on one output buffer: when a call has returned, the    *)
(* caller calls any entry point that takes the same output type, on any    *)
(* row, and the buffer holds whatever the calls so far have left in it.    *)

\* the element type of the output buffer an entry point of variant v takes
output_type(v) ==
    CASE v = "rgb16"                  -> "demosaic_pix_rgb16"
      [] v \in {"rgb8", "rgb16to8"}   -> "demosaic_pix_rgb8"
      [] v = "mono16"                 -> "U16"
      [] v \in {"mono8", "mono16to8"} -> "U8"

\* what the buffer may hold before the first call: never stored to, or
\* stored to by the caller
prior_contents(v) ==
    {unwritten(v),
     IF v \in RGBVariants THEN [red |-> 1, green |-> 2, blue |-> 3] ELSE 1}

\* the call of entry point (kind, v) on row r with the output buffer out
call(v, kind, r, out) ==
    /\ fn = [kind |-> kind, v |-> v]
    /\ args = mk_args(ContentRows, ContentCols, primary(v))
    /\ row = IF kind = "image" THEN 0 ELSE r
    /\ col = 0
    /\ output = out
    /\ written = {}
    /\ rgb = zero_rgb
    /\ pc = CASE kind = "image" -> "call_image"
              [] kind = "row"   -> "call_row"
              [] kind = "unopt" -> "call_unopt"

\* valid arguments, an image whose samples fit every variant's max_val, and
\* an image-sized output buffer with any prior content
InitCalls ==
    \E v \in Variants, kind \in Kinds, r \in 0..(ContentRows - 1) :
    \E prior \in prior_contents(v) :
        /\ call(v, kind, r,
                [i \in 0..(n_pix(ContentRows, ContentCols) - 1) |-> prior])
        /\ ptr = AllValid
        /\ bayer = make_random_input(ContentRows, ContentCols,
                                     primary("rgb8").max_val, 1)
        /\ err = ""
        /\ worker = [w \in Workers |-> idle]
        /\ pending = {}

\* the call has returned: the caller calls an entry point again, on the
\* buffer as the calls so far have left it
call_again ==
    /\ pc = "done"
    /\ \E v \in Variants, kind \in Kinds, r \in 0..(ContentRows - 1) :
           /\ output_type(v) = output_type(fn.v)
           /\ fn' = [kind |-> kind, v |-> v]
           /\ args' = mk_args(ContentRows, ContentCols, primary(v))
           /\ row' = IF kind = "image" THEN 0 ELSE r
           /\ pc' = CASE kind = "image" -> "call_image"
                      [] kind = "row"   -> "call_row"
                      [] kind = "unopt" -> "call_unopt"
    /\ col' = 0
    /\ written' = {}
    /\ rgb' = zero_rgb
    /\ UNCHANGED <<ptr, bayer, output, err, worker, pending>>

NextCalls == Next \/ call_again

SpecCalls == InitCalls /\ [][NextCalls]_vars

---------------------------------------------------------------------------
(* Calls of the 16-bit kernel evaluators: get_green16 and the three        *)
(* get_red_blue_from_*16, at a pixel whose stencil lies inside the image,  *)
(* on every assignment of a low and a high sample to the stencil's taps.   *)

KernelEvaluators ==
    {"get_green16", "get_red_blue_from_row16", "get_red_blue_from_column16",
     "get_red_blue_from_opposite16"}

\* the taps and divisor of evaluator e
kernel_of(e) ==
    CASE e = "get_green16"                  -> kernel_get_green16
      [] e = "get_red_blue_from_row16"      -> kernel_get_red_blue_from_row16
      [] e = "get_red_blue_from_column16"   -> kernel_get_red_blue_from_column16
      [] e = "get_red_blue_from_opposite16" -> kernel_get_red_blue_from_opposite16

\* the value evaluator e returns
kernel_evaluator(e, b, a, r, c) ==
    CASE e = "get_green16"                  -> get_green16(b, a, r, c)
      [] e = "get_red_blue_from_row16"      -> get_red_blue_from_row16(b, a, r, c)
      [] e = "get_red_blue_from_column16"   -> get_red_blue_from_column16(b, a, r, c)
      [] e = "get_red_blue_from_opposite16" -> get_red_blue_from_opposite16(b, a, r, c)

\* the image whose samples at the taps T of kernel k around (r, c) are hi,
\* all others 0
tap_image(nr, nc, k, r, c, T, hi) ==
    [i \in 0..(n_pix(nr, nc) - 1) |->
        IF \E j \in T : i = nc * (r + k.taps[j][1]) + (c + k.taps[j][2])
        THEN hi ELSE 0]

\* max_val and rshift of the calls: 0, 1, 8, 12 and 16 bits
KernelSettings ==
    {[max_val |-> ms[1], rshift |-> ms[2], coefs |-> ccir601] :
        ms \in {<<0, 0>>, <<1, 0>>, <<255, 0>>, <<4095, 4>>, <<65535, 8>>}}

InitKernel ==
    \E e \in KernelEvaluators, s \in KernelSettings, hi \in {1, 65535} :
    \E T \in SUBSET (1..Len(kernel_of(e).taps)) :
        /\ fn = [kind |-> "kernel", v |-> e]
        /\ ptr = AllValid
        /\ args = mk_args(ContentRows, ContentCols, s)
        /\ row = 2 /\ col = 2
        /\ bayer = tap_image(ContentRows, ContentCols, kernel_of(e), 2, 2,
                             T, hi)
        /\ output = [i \in {0} |-> -1]
        /\ written = {}
        /\ rgb = zero_rgb
        /\ pc = "call_kernel" /\ err = ""
        /\ worker = [w \in Workers |-> idle]
        /\ pending = {}

\* the evaluator returns its value
call_kernel ==
    /\ pc = "call_kernel"
    /\ output' = [output EXCEPT ![0] =
                     kernel_evaluator(fn.v, bayer, args, row, col)]
    /\ written' = {0}
    /\ pc' = "done"
    /\ UNCHANGED <<worker, pending, fn, ptr, bayer, args, row, col, rgb, err>>

NextKernel == call_kernel

SpecKernel == InitKernel /\ [][NextKernel]_vars

\* calls of every entry point on every row of images with and without
\* middle rows and fast-path columns, with valid arguments, and on the
\* smallest image with arguments that fail an assertion
InitTermination ==
    \E v \in Variants, kind \in Kinds :
        \/ \E d \in {<<2, 2>>, <<ContentRows, 6>>} :
           \E r \in 0..(d[1] - 1) :
               start(v, kind, mk_args(d[1], d[2], primary(v)), r, AllValid,
                     uniform(d[1], d[2], 100))
        \/ \E s \in Settings, r \in {0, 2} :
               start(v, kind, mk_args(2, 2, s), r, AllValid, uniform(2, 2, 100))
        \/ \E p \in Pointers :
               start(v, kind, mk_args(2, 2, primary(v)), 0, p,
                     uniform(2, 2, 100))
        \/ \E nr \in {0, 3}, nc \in {2, 5} :
               start(v, kind, mk_args(nr, nc, primary(v)), 0, AllValid,
                     uniform(nr, nc, 100))

\* A call runs on one thread that executes the next statement as long as
\* there is one: a step that stays possible is eventually taken.
SpecTermination == InitTermination /\ [][Next]_vars /\ WF_vars(Next)

\* well-formedness of the control state
TypeOK ==
    /\ fn.kind \in Kinds /\ fn.v \in Variants
    /\ pc \in {"call_image", "image_loop", "call_row", "call_unopt",
               "unopt_loop", "left", "interior", "right", "done", "fatal"}
    /\ (pc = "fatal") = (err # "")
    /\ written \subseteq DOMAIN output

---------------------------------------------------------------------------
(* Properties *)

\* the image position of output element i: an image function's buffer holds
\* all rows; a row function's buffer holds the row of the call
out_row(i) == IF fn.kind = "image" THEN i \div args.n_cols ELSE row

out_col(i) == IF fn.kind = "image" THEN i % args.n_cols ELSE i

\* the buffer invariant of the data model: no sample exceeds max_val
samples_in_range == \A i \in DOMAIN bayer : bayer[i] <= args.max_val

\* this step stores one output element, at column col of row row
writes_pixel ==
    \/ pc \in {"left", "right"}
    \/ pc \in {"interior", "unopt_loop"} /\ pc' = pc

\* (row, col) is at distance >= 2 from all four borders
interior_position(r, c) ==
    /\ 2 <= r /\ r < args.n_rows - 2
    /\ 2 <= c /\ c < args.n_cols - 2

\* C1: in the RGB variants, every element the public row function
\* demosaic_malvar_row_<v> has written (called directly or by the image
\* function, on any row, with any buffer content) is exactly the triple the
\* all-safe demosaic_malvar_row_<v>_unoptimized computes at that position.
C1_SafeFastEquivalenceRGB ==
    (fn.kind \in {"row", "image"} /\ fn.v \in RGBVariants) =>
        \A i \in written :
            output[i] = pixel_unoptimized(fn.v, bayer, args,
                                          out_row(i), out_col(i))

\* a middle row of rgb16to8 is complete, and its interior pixel at column 3
\* holds an interpolated red strictly between the clamp limits
C1_Witness ==
    /\ fn = [kind |-> "row", v |-> "rgb16to8"]
    /\ row = 2 /\ pc = "done"
    /\ written = 0..(args.n_cols - 1)
    /\ interior_position(row, 3)
    /\ output[3].red > 0
    /\ output[3].red < Shr(args.max_val, args.rshift)

\* C2: in the mono variants, on a buffer whose samples are all <= max_val,
\* every step of the public row function that stores an output sample feeds
\* the luma mixer the triple demosaic_malvar_row_<v>_unoptimized computes at
\* that column, and stores the luma of that triple.
C2_SafeFastEquivalenceMono ==
    [][(/\ fn.kind \in {"row", "image"}
        /\ fn.v \in MonoVariants
        /\ samples_in_range
        /\ writes_pixel)
       => /\ rgb' = pixel_unoptimized(fn.v, bayer, args, row, col)
          /\ output'[Base + col]
                 = luma(args, pixel_unoptimized(fn.v, bayer, args, row, col))
      ]_vars

\* a middle row of mono16to8 is complete on an in-range buffer; the last
\* interior sample is a luma strictly inside the 8-bit range
C2_Witness ==
    /\ fn = [kind |-> "row", v |-> "mono16to8"]
    /\ samples_in_range
    /\ row = 3 /\ pc = "done"
    /\ written = 0..(args.n_cols - 1)
    /\ interior_position(row, args.n_cols - 3)
    /\ output[args.n_cols - 3] > 0
    /\ output[args.n_cols - 3] < U8_MAX
    /\ output[args.n_cols - 3] # output[0]

\* the remap rule for one coordinate: mirror below 0, fold back at n
remapped(n, x) ==
    IF x < 0 THEN (-x) % 2
    ELSE IF x >= n THEN n - 2 + (x % 2)
    ELSE x

\* C3: while a row function that calls the safe helpers runs (dimensions
\* even and >= 2), for every coordinate with row in [-2, rows+1] and col in
\* [-2, cols+1] get_pixel16_safe and get_pixel8_safe remap row < 0 to
\* (-row) mod 2 and row >= rows to rows-2+(row mod 2), likewise for col,
\* leave in-range coordinates unchanged, and read the buffer at
\* n_cols*row'+col', an index in [0, rows*cols).
C3_AccessorInBounds ==
    pc \in {"unopt_loop", "left", "interior", "right"} =>
        \A r \in -2..(args.n_rows + 1), c \in -2..(args.n_cols + 1) :
            LET index == args.n_cols * remapped(args.n_rows, r)
                             + remapped(args.n_cols, c)
            IN  /\ 0 <= index /\ index < args.n_rows * args.n_cols
                /\ get_pixel16_safe_index(args.n_rows, args.n_cols, r, c)
                       = index
                /\ get_pixel8_safe_index(args.n_rows, args.n_cols, r, c)
                       = index
                /\ get_pixel16_safe(bayer, args.n_rows, args.n_cols, r, c)
                       = bayer[index]
                /\ get_pixel8_safe(bayer, args.n_rows, args.n_cols, r, c)
                       = bayer[index]

\* the unoptimized loop has computed the pixel at (0, 0) of a 2-row image,
\* whose stencils reach rows -2 and 3 and columns -2 and 2
C3_Witness ==
    /\ pc = "unopt_loop"
    /\ args.n_rows = 2 /\ args.n_cols = 4
    /\ row = 0 /\ col = 1
    /\ written = {Base}

\* C4: for dimensions even and >= 2 and a coordinate out of range by at
\* most 2, the remapped coordinate has the parity of the requested one on
\* each axis and is the in-range index of that parity nearest to it.
C4_AccessorKeepsParity ==
    pc \in {"unopt_loop", "left", "interior", "right"} =>
        \A n \in {args.n_rows, args.n_cols} :
            \A x \in -2..(n + 1) :
                /\ safe_coord(n, x) \in 0..(n - 1)
                /\ safe_coord(n, x) % 2 = x % 2
                /\ \A y \in 0..(n - 1) :
                       (y % 2 = x % 2) =>
                           (IF safe_coord(n, x) >= x
                            THEN safe_coord(n, x) - x ELSE x - safe_coord(n, x))
                           <= (IF y >= x THEN y - x ELSE x - y)

\* the unoptimized loop has computed the last pixel of the last row of a
\* 6 x 8 image, whose stencils reach row 7 and column 9
C4_Witness ==
    /\ pc = "unopt_loop"
    /\ args.n_rows = 6 /\ args.n_cols = 8
    /\ row = args.n_rows - 1 /\ col = args.n_cols
    /\ (Base + args.n_cols - 1) \in written

\* C5: on a single-colour mosaic (red sites R, green sites G, blue sites B,
\* each <= max_val) every written pixel at distance >= 2 from all four
\* borders is (R, G, B) in rgb16 and rgb8 and
\* (R >> rshift, G >> rshift, B >> rshift) in rgb16to8.
C5_SingleColourFidelity ==
    (fn.v \in RGBVariants /\ written # {}) =>
        LET R == bayer[0]
            G == bayer[1]
            B == bayer[args.n_cols + 1]
        IN  (/\ bayer = make_single_color_input(args.n_rows, args.n_cols,
                                                R, G, B)
             /\ R <= args.max_val /\ G <= args.max_val /\ B <= args.max_val)
            => \A i \in written :
                   interior_position(out_row(i), out_col(i)) =>
                       output[i] =
                           IF fn.v = "rgb16to8"
                           THEN [red   |-> Shr(R, args.rshift),
                                 green |-> Shr(G, args.rshift),
                                 blue  |-> Shr(B, args.rshift)]
                           ELSE [red |-> R, green |-> G, blue |-> B]

\* demosaic_malvar_rgb16to8 has returned on the mosaic of (max_val,
\* max_val / 2, 0) and the interior pixel (2, 3), a green site, holds the
\* three shifted values
C5_Witness ==
    /\ fn = [kind |-> "image", v |-> "rgb16to8"]
    /\ pc = "done"
    /\ interior_position(2, 3)
    /\ bayer = make_single_color_input(args.n_rows, args.n_cols,
                                       args.max_val, args.max_val \div 2, 0)
    /\ output[2 * args.n_cols + 3]
           = [red   |-> Shr(args.max_val, args.rshift),
              green |-> Shr(args.max_val \div 2, args.rshift),
              blue  |-> 0]
    /\ Shr(args.max_val \div 2, args.rshift) > 0

\* C6: with valid arguments and all samples <= max_val, every channel
\* written by the rgb16 and rgb8 row and image functions is in [0, max_val]
\* and every channel written by rgb16to8 is in [0, max_val >> rshift].
C6_OutputRange ==
    (fn.v \in RGBVariants /\ samples_in_range) =>
        \A i \in written :
            LET top == IF fn.v = "rgb16to8"
                       THEN Shr(args.max_val, args.rshift)
                       ELSE args.max_val
            IN  /\ 0 <= output[i].red   /\ output[i].red   <= top
                /\ 0 <= output[i].green /\ output[i].green <= top
                /\ 0 <= output[i].blue  /\ output[i].blue  <= top

\* a middle row of rgb8 is complete on an in-range buffer and an interior
\* pixel's blue, whose stencil value is above max_val, is max_val
C6_Witness ==
    /\ fn = [kind |-> "row", v |-> "rgb8"]
    /\ samples_in_range
    /\ row = 2 /\ pc = "done"
    /\ interior_position(row, 2)
    /\ args.max_val < U8_MAX
    /\ stencil_safe8(kernel_get_red_blue_from_opposite8, bayer, args, row, 2)
           > args.max_val
    /\ output[2].blue = args.max_val

\* C7: in rgb16 and rgb8 every written pixel holds the input sample in the
\* channel of its own colour (red at even row and even column, blue at odd
\* row and odd column, green elsewhere); at a red pixel green is the green
\* kernel and blue the opposite-colour kernel, at a blue pixel red is the
\* opposite-colour kernel and green the green kernel, at a green pixel of a
\* red row red is the row kernel and blue the column kernel, at a green
\* pixel of a blue row red is the column kernel and blue the row kernel.
C7_NativePassThrough ==
    fn.v \in {"rgb16", "rgb8"} =>
        \A i \in written :
            LET r == out_row(i)
                c == out_col(i)
                s == bayer[args.n_cols * r + c]
                green == IF fn.v = "rgb8" THEN get_green8(bayer, args, r, c)
                         ELSE get_green16(bayer, args, r, c)
                rowk == IF fn.v = "rgb8"
                        THEN get_red_blue_from_row8(bayer, args, r, c)
                        ELSE get_red_blue_from_row16(bayer, args, r, c)
                colk == IF fn.v = "rgb8"
                        THEN get_red_blue_from_column8(bayer, args, r, c)
                        ELSE get_red_blue_from_column16(bayer, args, r, c)
                opp == IF fn.v = "rgb8"
                       THEN get_red_blue_from_opposite8(bayer, args, r, c)
                       ELSE get_red_blue_from_opposite16(bayer, args, r, c)
            IN  output[i] =
                    CASE r % 2 = 0 /\ c % 2 = 0 ->
                             [red |-> s, green |-> green, blue |-> opp]
                      [] r % 2 = 0 /\ c % 2 = 1 ->
                             [red |-> rowk, green |-> s, blue |-> colk]
                      [] r % 2 = 1 /\ c % 2 = 0 ->
                             [red |-> colk, green |-> s, blue |-> rowk]
                      [] r % 2 = 1 /\ c % 2 = 1 ->
                             [red |-> opp, green |-> green, blue |-> s]

\* a green-blue middle row of rgb8 is complete and its interior green pixel
\* at column 2 holds three different values, green being the sample
C7_Witness ==
    /\ fn = [kind |-> "row", v |-> "rgb8"]
    /\ row = 3 /\ pc = "done"
    /\ interior_position(row, 2)
    /\ output[2].green = bayer[args.n_cols * row + 2]
    /\ output[2].red # output[2].blue
    /\ output[2].red # output[2].green
    /\ output[2].blue # output[2].green

invalid_dimensions ==
    \/ args.n_rows < 2 \/ args.n_cols < 2
    \/ args.n_rows % 2 = 1 \/ args.n_cols % 2 = 1

\* C9: a public row or image function called with n_rows < 2, n_cols < 2,
\* n_rows odd or n_cols odd, whatever the row, takes no step but the
\* dispatch to the unoptimized row function and the fatal handler, and no
\* step writes an element of the output buffer.
C9_DimensionRejection ==
    [][(invalid_dimensions /\ fn.kind \in {"row", "image"})
       => /\ \/ pc' = "fatal" /\ err' # ""
             \/ pc = "call_row" /\ pc' = "call_unopt"
          /\ written' = {}
          /\ output' = output
      ]_vars

\* demosaic_malvar_row_mono16to8 called on a middle row of a 5-row image
\* with valid pointers has stopped in the fatal handler on n_rows
C9_Witness ==
    /\ fn = [kind |-> "row", v |-> "mono16to8"]
    /\ ptr = AllValid
    /\ args.n_rows = 5 /\ args.n_cols = 4 /\ row = 2
    /\ pc = "fatal" /\ err = "n_rows"
    /\ written = {}

\* C10: a public row function called with valid pointers and dimensions and
\* row < 0 or row >= n_rows is routed to the unoptimized function, whose
\* row assertion invokes the fatal handler; nothing is written.
C10_RowRangeRejection ==
    [][(/\ fn.kind = "row"
        /\ ptr = AllValid
        /\ ~invalid_dimensions
        /\ (row < 0 \/ row >= args.n_rows))
       => /\ \/ pc = "call_row" /\ pc' = "call_unopt"
             \/ pc = "call_unopt" /\ pc' = "fatal" /\ err' = "row"
          /\ written' = {}
          /\ output' = output
      ]_vars

\* demosaic_malvar_row_mono8 called with row = n_rows on a valid image has
\* stopped in the fatal handler on the row assertion
C10_Witness ==
    /\ fn = [kind |-> "row", v |-> "mono8"]
    /\ ptr = AllValid
    /\ ~invalid_dimensions
    /\ row = args.n_rows
    /\ pc = "fatal" /\ err = "row"
    /\ written = {}

\* the bit-depth settings the 8-bit-producing variants reject
invalid_bit_depth ==
    \/ fn.v \in {"rgb8", "mono8"} /\ args.max_val > U8_MAX
    \/ /\ fn.v \in {"rgb16to8", "mono16to8"}
       /\ (args.rshift < 0 \/ Shr(args.max_val, args.rshift) > U8_MAX)

\* C11: a public row or image function of rgb8 or mono8 called with
\* max_val > 255, or of rgb16to8 or mono16to8 called with rshift < 0 or
\* (max_val >> rshift) > 255, only passes control down (image function to
\* its row loop, row loop to the row function, row function to the
\* unoptimized one) until an assertion invokes the fatal handler; no step
\* writes an output element.
C11_BitDepthRejection ==
    [][(invalid_bit_depth /\ fn.kind \in {"row", "image"})
       => /\ \/ pc' = "fatal" /\ err' # ""
             \/ pc = "call_image" /\ pc' = "image_loop"
             \/ pc = "image_loop" /\ pc' = "call_row"
             \/ pc = "call_row" /\ pc' = "call_unopt"
          /\ written' = {}
          /\ output' = output
      ]_vars

\* demosaic_malvar_rgb16to8, which asserts only the dimensions, was called
\* with max_val >> rshift = 511 and valid dimensions; the unoptimized row
\* function reached for row 0 has stopped in the fatal handler
C11_Witness ==
    /\ fn = [kind |-> "image", v |-> "rgb16to8"]
    /\ ptr = AllValid
    /\ ~invalid_dimensions
    /\ args.rshift >= 0
    /\ Shr(args.max_val, args.rshift) > U8_MAX
    /\ row = 0
    /\ pc = "fatal" /\ err = "max_val >> rshift"
    /\ written = {}

\* every luma coefficient lies in [0, 1]
coefs_in_unit_interval ==
    \A k \in {args.coefs.red, args.coefs.green, args.coefs.blue} :
        0 <= k /\ k <= CoefUnit

\* C12: a public mono row or image function called with a luma coefficient
\* below 0 or above 1 only passes control down to the function that holds
\* the assertion and then invokes the fatal handler, and no step writes an
\* output element; called with every coefficient in [0, 1], whatever their
\* sum, no coefficient assertion fails, and the call does not end in the
\* fatal handler when its other arguments are valid too.
C12_LumaCoefRejection ==
    [][(fn.v \in MonoVariants /\ fn.kind \in {"row", "image"})
       => /\ ~coefs_in_unit_interval
             => /\ \/ pc' = "fatal" /\ err' # ""
                   \/ pc = "call_image" /\ pc' = "image_loop"
                   \/ pc = "image_loop" /\ pc' = "call_row"
                   \/ pc = "call_row" /\ pc' = "call_unopt"
                /\ written' = {}
                /\ output' = output
          /\ coefs_in_unit_interval
             => /\ err' \notin {"coefs.red", "coefs.green", "coefs.blue",
                                "coef_sum"}
                /\ (/\ ptr = AllValid
                    /\ ~invalid_dimensions
                    /\ 0 <= row /\ row < args.n_rows
                    /\ ~invalid_bit_depth) => pc' # "fatal"
      ]_vars

\* demosaic_malvar_mono16to8 was called with valid dimensions and a blue
\* coefficient above 1; the unoptimized row function reached for row 0 has
\* stopped in the fatal handler with nothing written
C12_Witness ==
    /\ fn = [kind |-> "image", v |-> "mono16to8"]
    /\ args.coefs.blue > CoefUnit
    /\ row = 0
    /\ pc = "fatal" /\ err = "coefs.blue"
    /\ written = {}

\* what demosaic_malvar_row_<v> produces at (r, c): the unoptimized
\* function's pixel on the top and bottom two rows, on a middle row the safe
\* helpers' pixel in the two columns at each edge and the fast path's pixel
\* between them
row_function_pixel(v, b, a, r, c) ==
    IF r < 2 \/ r >= a.n_rows - 2 THEN pixel_unoptimized(v, b, a, r, c)
    ELSE IF c < 2 \/ c >= a.n_cols - 2 THEN pixel_edge(v, b, a, r, c)
    ELSE pixel_interior(v, b, a, r, c)

\* C13: an image function starts its loop at row 0 with nothing written;
\* it calls the row function for row only when exactly the elements of rows
\* 0..row-1 are written, and row advances by one on each return of the row
\* function and at no other step, so the rows are 0..n_rows-1 in increasing
\* order, once each; the call for row writes only elements of
\* output[row * n_cols .. row * n_cols + n_cols - 1], which on return hold
\* what the row function produces for (row, col); the image function
\* returns after row n_rows-1 with exactly the indices [0, n_rows * n_cols)
\* written, every output[row * n_cols + col] being the row function's
\* result for (row, col).
C13_ImageIsRowsInOrder ==
    [][fn.kind = "image" =>
        LET slice == (row * args.n_cols)..(row * args.n_cols + args.n_cols - 1)
        IN  /\ (pc = "call_image" /\ pc' = "image_loop")
                => row' = 0 /\ written' = {}
            /\ (pc = "image_loop" /\ pc' = "call_row")
                => /\ row' = row
                   /\ 0 <= row /\ row < args.n_rows
                   /\ written = 0..(row * args.n_cols - 1)
            /\ pc \in {"call_row", "call_unopt", "unopt_loop",
                       "left", "interior", "right"}
                => /\ row' = IF pc' = "image_loop" THEN row + 1 ELSE row
                   /\ written' \subseteq (written \cup slice)
                   /\ \A i \in DOMAIN output :
                          i \notin slice => output'[i] = output[i]
                   /\ pc' = "image_loop"
                       => \A c \in 0..(args.n_cols - 1) :
                              /\ (row * args.n_cols + c) \in written'
                              /\ output'[row * args.n_cols + c]
                                  \in stored(fn.v, args,
                                          row_function_pixel(fn.v, bayer,
                                                             args, row, c))
            /\ (pc = "image_loop" /\ pc' = "done")
                => /\ row = args.n_rows
                   /\ written = 0..(args.n_rows * args.n_cols - 1)
                   /\ \A i \in written :
                          output[i]
                              \in stored(fn.v, args,
                                      row_function_pixel(fn.v, bayer, args,
                                          i \div args.n_cols,
                                          i % args.n_cols))
      ]_vars

\* demosaic_malvar_mono8 has returned on a 6 x 8 image: every element is
\* written, and an element of the last row holds the row function's result,
\* which differs from the interior element above it
C13_Witness ==
    /\ fn = [kind |-> "image", v |-> "mono8"]
    /\ pc = "done"
    /\ args.n_rows = 6 /\ args.n_cols = 8
    /\ row = args.n_rows
    /\ written = 0..(args.n_rows * args.n_cols - 1)
    /\ output[5 * args.n_cols + 3]
           = luma(args, pixel_unoptimized(fn.v, bayer, args, 5, 3))
    /\ output[3 * args.n_cols + 3]
           = luma(args, pixel_interior(fn.v, bayer, args, 3, 3))
    /\ output[5 * args.n_cols + 3] # output[3 * args.n_cols + 3]

\* C14: concurrent callers that take the rows of an image in any order and
\* run demosaic_malvar_row_<v> on them, their pixel steps interleaved and the
\* output buffer apart from the Bayer buffer, never hold the same row; every
\* step stores only to the slice of the storing caller's row, and what it
\* stores is the element the in-order loop of the image function leaves at
\* that index; when every row is done the whole buffer is the image the
\* image function produces.
C14_RowIndependence ==
    [][/\ \A w1, w2 \in Workers :
              (w1 # w2 /\ worker'[w1].pc # "idle" /\ worker'[w2].pc # "idle")
                  => worker'[w1].row # worker'[w2].row
       /\ \A i \in DOMAIN output :
              output'[i] # output[i]
                  => /\ \E w \in Workers :
                            /\ worker[w].pc # "idle"
                            /\ worker[w].row = i \div args.n_cols
                            /\ worker[w].col = i % args.n_cols
                            /\ worker'[w] # worker[w]
                     /\ i \in written'
                     /\ output'[i]
                            \in stored(fn.v, args,
                                    row_function_pixel(fn.v, bayer, args,
                                        i \div args.n_cols, i % args.n_cols))
       /\ (pending' = {} /\ \A w \in Workers : worker'[w] = idle)
              => /\ written' = 0..(args.n_rows * args.n_cols - 1)
                 /\ \A i \in DOMAIN output' :
                        output'[i]
                            \in stored(fn.v, args,
                                    row_function_pixel(fn.v, bayer, args,
                                        i \div args.n_cols, i % args.n_cols))
      ]_vars

\* rows 2 and 5 are done before rows 1 and 4 are taken; one caller is on the
\* fast path of row 3 while the other is inside the unoptimized row 0
C14_Witness ==
    /\ fn.v = "mono16"
    /\ pending = {1, 4}
    /\ worker["a"] = [pc |-> "interior", row |-> 3, col |-> 4]
    /\ worker["b"] = [pc |-> "unopt_loop", row |-> 0, col |-> 5]
    /\ \A c \in 0..(args.n_cols - 1) :
           /\ (2 * args.n_cols + c) \in written
           /\ (5 * args.n_cols + c) \in written
    /\ (3 * args.n_cols + 3) \in written
    /\ 4 \in written
    /\ output[3 * args.n_cols + 3] # output[4]

\* C15: when a call with valid arguments returns, on a Bayer buffer within
\* max_val, every element of the output the entry point covers (the row for
\* a row function, the image for an image function) holds the one value
\* that the entry point, the Bayer buffer, the arguments and the row
\* determine, whatever the buffer held before the call and whichever entry
\* points were called before on it; so two calls of one entry point with the
\* same arguments and buffer return identical output.
C15_Determinism ==
    (pc = "done" /\ samples_in_range) =>
        \A i \in 0..((IF fn.kind = "image" THEN args.n_rows ELSE 1)
                         * args.n_cols - 1) :
            LET t == IF fn.kind = "unopt"
                     THEN pixel_unoptimized(fn.v, bayer, args, row, i)
                     ELSE row_function_pixel(fn.v, bayer, args,
                                             out_row(i), out_col(i))
            IN  /\ Cardinality(stored(fn.v, args, t)) = 1
                /\ output[i] \in stored(fn.v, args, t)

\* demosaic_malvar_row_mono8 has returned for row 3 on a buffer that
\* demosaic_malvar_mono16to8 had filled before: the row's elements are the
\* row function's, and the element after them still holds the other entry
\* point's sample, which is not the one demosaic_malvar_mono8 computes
C15_Witness ==
    /\ fn = [kind |-> "row", v |-> "mono8"]
    /\ row = 3 /\ pc = "done"
    /\ written = 0..(args.n_cols - 1)
    /\ output[args.n_cols]
           = luma(mk_args(ContentRows, ContentCols, primary("mono16to8")),
                  row_function_pixel("mono16to8", bayer,
                      mk_args(ContentRows, ContentCols, primary("mono16to8")),
                      1, 0))
    /\ output[args.n_cols] # luma(args, row_function_pixel("mono8", bayer,
                                                           args, 1, 0))
    /\ output[args.n_cols] \notin prior_contents(fn.v)
    /\ output[3] = luma(args, pixel_interior(fn.v, bayer, args, 3, 3))
    /\ output[3] # output[args.n_cols]

\* the RGB variant with the Bayer and output widths of mono variant v
rgb_variant(v) ==
    CASE v = "mono16"    -> "rgb16"
      [] v = "mono8"     -> "rgb8"
      [] v = "mono16to8" -> "rgb16to8"

\* C16: with valid arguments and every sample <= max_val, each sample a mono
\* entry point stores at (row, col) is trunc(cr*R + cg*G + cb*B + 0.5), the
\* coefficients being the arguments' divided by (red + green + blue +
\* 0.000001) and (R, G, B) the pixel that the same entry point of the RGB
\* variant of the same widths (rgb16 for mono16, rgb8 for mono8, rgb16to8 for
\* mono16to8) produces at (row, col).
C16_MonoIsLumaOfRGB ==
    [][(fn.v \in MonoVariants /\ samples_in_range /\ writes_pixel)
       => LET t == IF fn.kind = "unopt"
                   THEN pixel_unoptimized(rgb_variant(fn.v), bayer, args,
                                          row, col)
                   ELSE row_function_pixel(rgb_variant(fn.v), bayer, args,
                                           row, col)
          IN  /\ output'[Base + col] = luma(args, t)
              /\ (Base + col) \in written'
      ]_vars

\* demosaic_malvar_row_mono16 has returned for row 2; the fast-path sample at
\* column 3 is the luma of the red, green and blue of rgb16 there, which are
\* not all equal, and lies strictly between the least and the greatest of
\* them
C16_Witness ==
    /\ fn = [kind |-> "row", v |-> "mono16"]
    /\ samples_in_range
    /\ row = 2 /\ pc = "done"
    /\ interior_position(row, 3)
    /\ LET t == interior_row_rgb16(bayer, args, row, 3)
       IN  /\ t.red > t.green /\ t.green > t.blue
           /\ output[3] = luma(args, t)
           /\ t.blue < output[3] /\ output[3] < t.red

\* C17: no step of an entry point, whether the call returns or ends in the
\* fatal handler, changes a sample of the Bayer buffer, a field of the
\* arguments or a pointer argument; the only buffer a step stores to is the
\* output, at output_row[col] in a step that computes a pixel.
C17_InputsReadOnly ==
    [][/\ bayer' = bayer
       /\ args' = args
       /\ ptr' = ptr
       /\ \A i \in DOMAIN output :
              output'[i] # output[i] => (writes_pixel /\ i = Base + col)
      ]_vars

\* demosaic_malvar_mono16to8 has returned on the 6 x 8 image: every output
\* element is written, and the Bayer buffer and the arguments are those of
\* the call
C17_Witness ==
    /\ fn = [kind |-> "image", v |-> "mono16to8"]
    /\ pc = "done"
    /\ written = 0..(6 * 8 - 1)
    /\ \A i \in written : output[i] # unwritten(fn.v)
    /\ bayer = uniform(6, 8, 100)
    /\ args = mk_args(6, 8, primary(fn.v))

\* C18: a row function (the public demosaic_malvar_row_<v> or the
\* unoptimized one) called with bayer, args or output_row NULL
\* takes no step that computes a pixel, so it reads no sample of the Bayer
\* buffer and stores no output element: on a top or bottom row it passes
\* control to the unoptimized function, and the next step invokes the fatal
\* handler on the assertion of a pointer.
C18_NullRejection ==
    [][(fn.kind \in {"row", "unopt"} /\ ptr # AllValid)
       => /\ \/ /\ pc' = "fatal"
                /\ err' \in {"bayer", "args", "output_row"}
             \/ /\ pc = "call_row" /\ pc' = "call_unopt"
                /\ ptr.args
                /\ row < 2 \/ row >= args.n_rows - 2
          /\ ~writes_pixel
          /\ written' = {}
          /\ output' = output
      ]_vars

\* demosaic_malvar_row_rgb16 was called for a middle row of a 6 x 8 image
\* with bayer NULL and has stopped in the fatal handler on bayer != NULL
C18_Witness ==
    /\ fn = [kind |-> "row", v |-> "rgb16"]
    /\ ~ptr.bayer /\ ptr.args /\ ptr.output
    /\ args.n_rows = 6 /\ args.n_cols = 8
    /\ row = 3
    /\ pc = "fatal" /\ err = "bayer"
    /\ written = {}

\* the stencils in words: the weight of the sample at (d_row, d_col) from
\* the centre
weight_green(dr, dc) ==
    CASE dr = 0 /\ dc = 0                        -> 4
      [] (dr = 0 /\ dc \in {-1, 1})
             \/ (dc = 0 /\ dr \in {-1, 1})       -> 2
      [] (dr = 0 /\ dc \in {-2, 2})
             \/ (dc = 0 /\ dr \in {-2, 2})       -> -1
      [] OTHER                                   -> 0

weight_opposite(dr, dc) ==
    CASE dr = 0 /\ dc = 0                        -> 12
      [] dr \in {-1, 1} /\ dc \in {-1, 1}        -> 4
      [] (dr = 0 /\ dc \in {-2, 2})
             \/ (dc = 0 /\ dr \in {-2, 2})       -> -3
      [] OTHER                                   -> 0

weight_row(dr, dc) ==
    CASE dr = 0 /\ dc = 0                        -> 10
      [] dr = 0 /\ dc \in {-1, 1}                -> 8
      [] dr = 0 /\ dc \in {-2, 2}                -> -2
      [] dr \in {-1, 1} /\ dc \in {-1, 1}        -> -2
      [] dc = 0 /\ dr \in {-2, 2}                -> 1
      [] OTHER                                   -> 0

weight_column(dr, dc) == weight_row(dc, dr)

\* the 5 x 5 neighbourhood, row by row, as offsets from the centre
neighbourhood ==
    [k \in 1..25 |-> <<((k - 1) \div 5) - 2, ((k - 1) % 5) - 2>>]

stencil_green ==
    [k \in 1..25 |-> weight_green(neighbourhood[k][1], neighbourhood[k][2])]

stencil_opposite ==
    [k \in 1..25 |-> weight_opposite(neighbourhood[k][1], neighbourhood[k][2])]

stencil_row ==
    [k \in 1..25 |-> weight_row(neighbourhood[k][1], neighbourhood[k][2])]

stencil_column ==
    [k \in 1..25 |-> weight_column(neighbourhood[k][1], neighbourhood[k][2])]

\* the sum of the weights of each stencil
stencil_sums ==
    [green    |-> SeqSum(stencil_green),
     opposite |-> SeqSum(stencil_opposite),
     row      |-> SeqSum(stencil_row),
     column   |-> SeqSum(stencil_column)]

\* C19: at every pixel a row function computes, each kernel evaluator of the
\* variant's Bayer width returns clamp(S / W, 0, max_val), S being the sum
\* over the 5 x 5 neighbourhood (read through the safe accessor) of weight
\* times sample and the clamp applied once, to the divided sum; the weights
\* are: green -1 at distance 2 and +2 at distance 1 on both axes, +4 at the
\* centre, W = 8; opposite -3 at distance 2 on both axes, +4 at the four
\* diagonals, +12 at the centre, W = 16; row +1 at rows +-2, -2 at the
\* diagonals and at columns +-2, +8 at columns +-1, +10 at the centre,
\* W = 16; column the row stencil with the axes swapped; and the weights of
\* each stencil sum to its W.
C19_KernelEvaluatorResult ==
    (pc \in {"unopt_loop", "left", "interior", "right"}
        /\ 0 <= col /\ col < args.n_cols) =>
        LET pix(k) ==
                IF fn.v \in In8Variants
                THEN get_pixel8_safe(bayer, args.n_rows, args.n_cols,
                                     row + neighbourhood[k][1],
                                     col + neighbourhood[k][2])
                ELSE get_pixel16_safe(bayer, args.n_rows, args.n_cols,
                                      row + neighbourhood[k][1],
                                      col + neighbourhood[k][2])
            S(stencil) ==
                SeqSum([k \in 1..25 |->
                           IF stencil[k] = 0 THEN 0 ELSE stencil[k] * pix(k)])
            clamp(x) == IF x < 0 THEN 0
                        ELSE IF x > args.max_val THEN args.max_val
                        ELSE x
        IN  /\ stencil_sums = [green |-> 8, opposite |-> 16, row |-> 16,
                               column |-> 16]
            /\ IF fn.v \in In8Variants
               THEN /\ get_green8(bayer, args, row, col)
                           = clamp(CDiv(S(stencil_green), 8))
                    /\ get_red_blue_from_opposite8(bayer, args, row, col)
                           = clamp(CDiv(S(stencil_opposite), 16))
                    /\ get_red_blue_from_row8(bayer, args, row, col)
                           = clamp(CDiv(S(stencil_row), 16))
                    /\ get_red_blue_from_column8(bayer, args, row, col)
                           = clamp(CDiv(S(stencil_column), 16))
               ELSE /\ get_green16(bayer, args, row, col)
                           = clamp(CDiv(S(stencil_green), 8))
                    /\ get_red_blue_from_opposite16(bayer, args, row, col)
                           = clamp(CDiv(S(stencil_opposite), 16))
                    /\ get_red_blue_from_row16(bayer, args, row, col)
                           = clamp(CDiv(S(stencil_row), 16))
                    /\ get_red_blue_from_column16(bayer, args, row, col)
                           = clamp(CDiv(S(stencil_column), 16))

\* the unoptimized rgb16 function is at a pixel two rows below a sample of
\* max_val on black: the green sum is negative and get_green16 returns 0,
\* the row sum is not a multiple of 16 and get_red_blue_from_row16 returns
\* its truncated quotient, the column sum is negative
C19_Witness ==
    /\ fn = [kind |-> "unopt", v |-> "rgb16"]
    /\ pc = "unopt_loop"
    /\ row = 2 /\ col = 3
    /\ bayer[col] = args.max_val
    /\ \A i \in DOMAIN bayer : i # col => bayer[i] = 0
    /\ get_green16(bayer, args, row, col) = 0
    /\ get_red_blue_from_row16(bayer, args, row, col) = args.max_val \div 16
    /\ args.max_val % 16 # 0
    /\ get_red_blue_from_column16(bayer, args, row, col) = 0

\* C20: in a public row function, called directly or by the image function,
\* rows 0, 1, n_rows-2 and n_rows-1 are handed to the unoptimized function
\* and only a row with 2 <= row < n_rows-2 enters the edge and fast-path
\* code; a step of the fast path computes a pixel with 2 <= row < n_rows-2
\* and 2 <= col < n_cols-2, in an image of at least 6 rows and 6 columns; a
\* step of the unoptimized function or of the left or right edge, which use
\* the safe helpers, computes a pixel outside that range; so the pixels the
\* fast path computes are exactly those at distance >= 2 from every border,
\* and none when n_rows < 6 or n_cols < 6.
C20_PathDispatch ==
    [][fn.kind \in {"row", "image"} =>
        /\ (pc = "call_row" /\ pc' \in {"left", "interior", "right"})
            => 2 <= row /\ row < args.n_rows - 2
        /\ (pc = "call_row" /\ pc' = "call_unopt")
            => row < 2 \/ row >= args.n_rows - 2
        /\ (pc = "interior" /\ pc' = pc)
            => /\ interior_position(row, col)
               /\ args.n_rows >= 6 /\ args.n_cols >= 6
               /\ written' = written \cup {Base + col}
        /\ (writes_pixel /\ pc \in {"unopt_loop", "left", "right"})
            => ~interior_position(row, col)
        /\ (writes_pixel /\ interior_position(row, col)) => pc = "interior"
        /\ (pc = "right" /\ pc' # "right" /\ args.n_cols >= 6)
            => \A c \in 2..(args.n_cols - 3) : (Base + c) \in written
      ]_vars

\* demosaic_malvar_row_rgb8 on row 3 of a 6 x 8 image has computed columns 0
\* and 1 at the left edge and columns 2..5 on the fast path, and is about to
\* leave the fast-path loop for the right edge
C20_Witness ==
    /\ fn = [kind |-> "row", v |-> "rgb8"]
    /\ args.n_rows = 6 /\ args.n_cols = 8
    /\ row = 3
    /\ pc = "interior" /\ col = args.n_cols - 2
    /\ written = 0..(args.n_cols - 3)

\* the stencil tables of the fast path of variant v
kernels_row(v) ==
    CASE v = "rgb16"     -> kernels_row_rgb16
      [] v = "rgb8"      -> kernels_row_rgb8
      [] v = "rgb16to8"  -> kernels_row_rgb16to8
      [] v = "mono16"    -> kernels_row_mono16
      [] v = "mono8"     -> kernels_row_mono8
      [] v = "mono16to8" -> kernels_row_mono16to8

\* the offsets <<dr, dc>> of the GET_PIX accesses the fast path makes for
\* the pixel at (r, c): the pixel itself and the taps of its two stencils
fast_path_offsets(v, r, c) ==
    LET site == IF r % 2 = 0
                THEN (IF c % 2 = 0 THEN kernels_row(v).rg_red
                      ELSE kernels_row(v).rg_green)
                ELSE (IF c % 2 = 0 THEN kernels_row(v).gb_green
                      ELSE kernels_row(v).gb_blue)
    IN  {<<0, 0>>}
        \cup UNION {{<<site[ch].taps[i][1], site[ch].taps[i][2]>> :
                        i \in 1..Len(site[ch].taps)} : ch \in DOMAIN site}

\* C21: at every step of the fast path of a public row function (called
\* directly or by the image function), each GET_PIX access of the pixel's
\* stencils has |dr| <= 2 and |dc| <= 2, and every offset with |dr| <= 2 and
\* |dc| <= 2 gives 0 <= row+dr < n_rows, 0 <= col+dc < n_cols and an index
\* n_cols*(row+dr)+(col+dc) in [0, n_rows*n_cols), a sample of the buffer.
C21_FastPathReadsInBounds ==
    [][(pc = "interior" /\ pc' = pc) =>
        /\ fast_path_offsets(fn.v, row, col)
               \subseteq ((-2..2) \X (-2..2))
        /\ Cardinality(fast_path_offsets(fn.v, row, col)) >= 13
        /\ \A dr \in -2..2, dc \in -2..2 :
               /\ 0 <= row + dr /\ row + dr < args.n_rows
               /\ 0 <= col + dc /\ col + dc < args.n_cols
               /\ 0 <= args.n_cols * (row + dr) + (col + dc)
               /\ args.n_cols * (row + dr) + (col + dc)
                      < args.n_rows * args.n_cols
               /\ (args.n_cols * (row + dr) + (col + dc)) \in DOMAIN bayer
      ]_vars

\* the fast path of demosaic_malvar_row_mono16to8 has computed the pixels of
\* row n_rows-3 up to column n_cols-3, whose stencils reach the last row and
\* the last column
C21_Witness ==
    /\ fn = [kind |-> "row", v |-> "mono16to8"]
    /\ args.n_rows = 6 /\ args.n_cols = 8
    /\ row = args.n_rows - 3
    /\ pc = "interior" /\ col = args.n_cols - 2
    /\ (args.n_cols - 3) \in written

\* C22: in a public or unoptimized row function called with valid
\* arguments, every step that stores an element stores output_row[col] with
\* 0 <= col < n_cols and nothing else, and at the return every index
\* 0..n_cols-1 has been stored; on a middle row of an image with n_cols = 2
\* the right edge stores again the two columns the left edge stored, with
\* the values they hold.
C22_RowWritesCoverSlice ==
    [][fn.kind \in {"row", "unopt"} =>
        /\ writes_pixel
            => /\ 0 <= col /\ col < args.n_cols
               /\ written' = written \cup {col}
               /\ \A i \in DOMAIN output : i # col => output'[i] = output[i]
               /\ output'[col] # unwritten(fn.v)
        /\ ~writes_pixel => (written' = written /\ output' = output)
        /\ pc' = "done" => written' = 0..(args.n_cols - 1)
        /\ (pc = "right" /\ args.n_cols = 2)
            => /\ written = {0, 1}
               /\ output'[col] = output[col]
      ]_vars

\* demosaic_malvar_row_rgb16to8 has returned for the middle row 2 of a
\* 6 x 2 image: both columns are stored, by the left and by the right edge
C22_Witness ==
    /\ fn = [kind |-> "row", v |-> "rgb16to8"]
    /\ args.n_rows = 6 /\ args.n_cols = 2
    /\ row = 2
    /\ pc = "done"
    /\ written = {0, 1}
    /\ output[0] # unwritten(fn.v) /\ output[1] # unwritten(fn.v)

\* C23: in a call of a 16-bit kernel evaluator on any assignment of 0, 1 and
\* 65535 to the taps (the sum is linear in each sample, so its extremes are
\* among them), every product sample * weight and every partial sum of the
\* products, added in the order of the code, on the safe and on the fast
\* path, lies in the range of the I32 accumulator; the value returned is the
\* exact sum divided and limited.
C23_NoAccumulatorOverflow ==
    fn.kind = "kernel" =>
        LET k == kernel_of(fn.v)
            p == Products16(k, bayer, args, row, col)
            q == [i \in 1..Len(k.taps) |->
                     GET_PIX(bayer, args.n_cols, row + k.taps[i][1],
                             col + k.taps[i][2]) * k.taps[i][3]]
        IN  /\ \A n \in 1..Len(p) :
                   /\ I32_MIN <= p[n] /\ p[n] <= I32_MAX
                   /\ I32_MIN <= SeqSum(SubSeq(p, 1, n))
                   /\ SeqSum(SubSeq(p, 1, n)) <= I32_MAX
                   /\ I32_MIN <= SeqSum(SubSeq(q, 1, n))
                   /\ SeqSum(SubSeq(q, 1, n)) <= I32_MAX
            /\ pc = "done"
                => /\ output[0]
                          = DM_LIMIT(CDiv(SeqSum(p), k.div), 0, args.max_val)
                   /\ stencil_GET_PIX(k, bayer, args.n_cols, row, col)
                          = CDiv(SeqSum(q), k.div)

\* get_red_blue_from_row16 has returned on the assignment of 65535 to its
\* five taps of positive weight and 0 to the others: the sum is 28 * 65535,
\* the greatest any stencil reaches
C23_Witness ==
    /\ fn = [kind |-> "kernel", v |-> "get_red_blue_from_row16"]
    /\ pc = "done"
    /\ args.max_val = 65535
    /\ SeqSum(Products16(kernel_of(fn.v), bayer, args, row, col)) = 28 * 65535
    /\ output[0] = 65535

\* the call's arguments pass every assertion of its entry point
valid_call ==
    /\ ptr = AllValid
    /\ ~invalid_dimensions
    /\ fn.kind = "image" \/ (0 <= row /\ row < args.n_rows)
    /\ ~invalid_bit_depth
    /\ fn.v \in MonoVariants => coefs_in_unit_interval

\* C24: every call with valid arguments eventually returns, and every call
\* eventually has returned or invoked the fatal handler.  Each column loop
\* advances col by one per pixel, an iteration being two pixels, and is left
\* at an even col: the unoptimized loop at col = n_cols, the fast-path loop
\* when col < n_cols-2 fails (col = n_cols-2 when n_cols >= 4, and before
\* its first pixel when n_cols = 2); the row loop of an image function
\* advances row by one at each return of the row function and is left at
\* row = n_rows.
C24_Termination ==
    /\ [][/\ (pc \in {"unopt_loop", "interior"} /\ pc' = pc)
              => /\ col' = col + 1
                 /\ col < (IF pc = "interior" THEN args.n_cols - 2
                           ELSE args.n_cols)
          /\ (pc = "unopt_loop" /\ pc' # pc) => col = args.n_cols
          /\ (pc = "interior" /\ pc' # pc)
              => /\ col % 2 = 0 /\ col >= args.n_cols - 2
                 /\ args.n_cols >= 4 => col = args.n_cols - 2
          /\ (fn.kind = "image" /\ pc' = "image_loop" /\ pc # "call_image")
              => row' = row + 1 /\ row < args.n_rows
          /\ (pc = "image_loop" /\ pc' = "done") => row = args.n_rows
          /\ (pc = "image_loop" /\ pc' = "call_row") => row' = row
         ]_vars
    /\ (valid_call /\ pc \in {"call_image", "call_row", "call_unopt"})
           ~> (pc = "done")
    /\ <>(pc \in {"done", "fatal"})

\* demosaic_malvar_mono8 has returned on a 6 x 8 image after the row loop
\* reached row = n_rows
C24_Witness ==
    /\ fn = [kind |-> "image", v |-> "mono8"]
    /\ ptr = AllValid
    /\ args.n_rows = ContentRows /\ args.n_cols = 6
    /\ coefs_in_unit_interval
    /\ args.max_val <= U8_MAX
    /\ pc = "done"
    /\ row = args.n_rows
    /\ col = args.n_cols


----------------------------------------------------------------------------
(* Luma coefficients: mono calls over a grid of coefficient triples *)

\* coefficient values, in thousandths: the ends of [0,1], values next to
\* them inside and outside, and the middle
CoefGrid == {-1, 0, 1, 500, CoefUnit, CoefUnit + 1}

InitCoefs ==
    \E v \in MonoVariants, kind \in Kinds :
    \E kr \in CoefGrid, kg \in CoefGrid, kb \in CoefGrid :
    \E r \in {0, 2} :
        start(v, kind,
              mk_args(ContentRows, 6, [primary(v) EXCEPT
                                          !.coefs = [red |-> kr, green |-> kg,
                                                     blue |-> kb]]),
              r, AllValid, uniform(ContentRows, 6, 100))

SpecCoefs == InitCoefs /\ [][Next]_vars

\* C25: for every accepted coefficient triple (each value in [0,1]) the sum
\* of the three normalized coefficients, (red + green + blue) divided by
\* (red + green + blue + 0.000001), is below 1.0, so the assertion on the
\* normalized sum never stops a mono call
C25_NormalizedSumBelowOne ==
    (fn.v \in MonoVariants /\ coefs_in_unit_interval)
        => /\ coefs_normed_sum_num(args) < coef_sum_scaled(args)
           /\ err # "coef_sum"
           /\ pc # "fatal"

C25_Witness ==
    /\ fn.v \in MonoVariants
    /\ args.coefs = [red |-> CoefUnit, green |-> CoefUnit, blue |-> CoefUnit]
    /\ pc = "done"
    /\ written # {}


\* C26: with luma coefficients {0, 0, 0} and otherwise valid arguments every
\* mono entry point runs to its return without a fatal assertion, the
\* divisor of the normalization is not zero, and every output sample it
\* writes is 0; at the return the whole output has been written
C26_ZeroCoefsGiveZero ==
    (/\ fn.v \in MonoVariants
     /\ args.coefs = [red |-> 0, green |-> 0, blue |-> 0])
        => /\ pc # "fatal"
           /\ coef_sum_scaled(args) # 0
           /\ \A i \in written : output[i] = 0
           /\ pc = "done" => \A i \in DOMAIN output : output[i] = 0

C26_Witness ==
    /\ fn = [kind |-> "image", v |-> "mono16to8"]
    /\ args.coefs = [red |-> 0, green |-> 0, blue |-> 0]
    /\ pc = "done"
    /\ \A i \in DOMAIN output : output[i] = 0
    /\ \E i \in DOMAIN bayer : bayer[i] # 0


----------------------------------------------------------------------------
(* Narrowing of native samples: mono16to8 calls on buffers whose samples
   range over the whole of U16 *)

\* 16-bit sample values: the ends of the type and the values on both sides
\* of the 8-bit and 12-bit limits
SampleGrid == {0, 1, U8_MAX, U8_MAX + 1, 4095, 4096, 65535}

\* bit depths of the mono16to8 calls; the last one is rejected
NarrowSettings ==
    {[max_val |-> ms[1], rshift |-> ms[2], coefs |-> ccir601] :
        ms \in {<<255, 0>>, <<4095, 4>>, <<65535, 8>>, <<4095, 3>>}}

InitNarrow ==
    \E kind \in Kinds, s \in NarrowSettings, x \in SampleGrid, r \in {0, 2, 3} :
    \E img \in {uniform(ContentRows, 6, x),
                 impulse(ContentRows, 6, 1, x, 2 * 6 + 2)} :
        start("mono16to8", kind, mk_args(ContentRows, 6, s), r, AllValid, img)

SpecNarrow == InitNarrow /\ [][Next]_vars

\* the channel of triple t that is the bayer sample's own colour at (r, c)
native(t, r, c) ==
    IF r % 2 = 0 /\ c % 2 = 0 THEN t.red
    ELSE IF r % 2 = 1 /\ c % 2 = 1 THEN t.blue
    ELSE t.green

\* C27: for valid arguments and any 16-bit sample at the pixel's own colour
\* site, values above max_val included, the fast path of
\* demosaic_malvar_row_mono16to8 and the safe helpers pass the same value
\* to the luma mixer, (sample >> rshift) reduced to 8 bits
C27_NativeNarrowingSame ==
    (/\ fn.v = "mono16to8"
     /\ valid_call
     /\ pc = "interior"
     /\ col < args.n_cols - 2)
        => /\ native(pixel_interior(fn.v, bayer, args, row, col), row, col)
                = native(pixel_unoptimized(fn.v, bayer, args, row, col), row, col)
           /\ native(pixel_interior(fn.v, bayer, args, row, col), row, col)
                = U8(Shr(GET_PIX(bayer, args.n_cols, row, col), args.rshift))


\* the accumulated sum of evaluator fn.v at (row, col), before the division
kernel_sum == SeqSum(Products16(kernel_of(fn.v), bayer, args, row, col))

\* C28: for every stencil, every assignment of samples to its taps and every
\* max_val, clamping the quotient of the accumulated sum by the stencil's
\* divisor to [0, max_val] gives the same value whether the division
\* truncates toward zero, as the evaluator's does, or floors, and so does the
\* narrowing ternary of the fast path; the evaluator returns that value
C28_DivisionModeIrrelevant ==
    fn.kind = "kernel"
        => /\ DM_LIMIT(CDiv(kernel_sum, kernel_of(fn.v).div), 0, args.max_val)
                = DM_LIMIT(kernel_sum \div kernel_of(fn.v).div, 0, args.max_val)
           /\ narrow(CDiv(kernel_sum, kernel_of(fn.v).div), args.max_val,
                     U8(Shr(args.max_val, args.rshift)), args.rshift)
                = narrow(kernel_sum \div kernel_of(fn.v).div, args.max_val,
                         U8(Shr(args.max_val, args.rshift)), args.rshift)
           /\ pc = "done"
                => output[0] = U16(DM_LIMIT(kernel_sum \div kernel_of(fn.v).div,
                                            0, args.max_val))

C28_Witness ==
    /\ fn.kind = "kernel"
    /\ pc = "done"
    /\ args.max_val = 4095
    /\ kernel_sum < 0
    /\ CDiv(kernel_sum, kernel_of(fn.v).div) # kernel_sum \div kernel_of(fn.v).div
    /\ output[0] = 0


\* the nc x nr image whose sample (c, r) is sample (r, c) of the nr x nc
\* image b
transposed(b, nr, nc) ==
    [i \in 0..(n_pix(nc, nr) - 1) |-> b[(i % nr) * nc + (i \div nr)]]

\* the pixel at (r, c) of the result of entry point kind of variant v
demosaiced(v, kind, b, a, r, c) ==
    IF kind = "unopt" THEN pixel_unoptimized(v, b, a, r, c)
    ELSE row_function_pixel(v, b, a, r, c)

\* C29: for every valid image and each RGB variant, every pixel (row, col)
\* a returned call has written, border pixels included, equals in all three
\* channels the pixel (col, row) of demosaicing the transposed image
C29_TranspositionSymmetry ==
    (fn.v \in RGBVariants /\ pc = "done" /\ fn.kind \in Kinds)
        => LET bt == transposed(bayer, args.n_rows, args.n_cols)
               at == [args EXCEPT !.n_rows = args.n_cols,
                                  !.n_cols = args.n_rows]
           IN  \A i \in written :
                   output[i] = demosaiced(fn.v, fn.kind, bt, at,
                                          out_col(i), out_row(i))

C29_Witness ==
    /\ fn = [kind |-> "image", v |-> "rgb16"]
    /\ pc = "done"
    /\ args.n_rows = 6 /\ args.n_cols = 8
    /\ bayer # transposed(transposed(bayer, 6, 8), 6, 8)
    /\ written = 0..(args.n_rows * args.n_cols - 1)
    /\ output[0 * args.n_cols + 1].red # output[0 * args.n_cols + 1].blue
    /\ output[0 * args.n_cols + 1]
           = row_function_pixel("rgb16", transposed(bayer, 6, 8),
                                [args EXCEPT !.n_rows = 8, !.n_cols = 6], 1, 0)
    /\ output[3 * args.n_cols + 4] # output[4 * args.n_cols + 3]


\* C30: on a single-colour mosaic (R at red sites, G at green sites, B at
\* blue sites, each <= max_val) of any valid size down to 2 x 2, every
\* element an RGB variant has written, on the border rows and columns as well
\* as inside, is exactly the triple (the shifted triple for rgb16to8)
C30_SingleColourFidelityBorder ==
    (fn.v \in RGBVariants /\ written # {}) =>
        LET R == bayer[0]
            G == bayer[1]
            B == bayer[args.n_cols + 1]
        IN  (/\ bayer = make_single_color_input(args.n_rows, args.n_cols,
                                                R, G, B)
             /\ R <= args.max_val /\ G <= args.max_val /\ B <= args.max_val)
            => \A i \in written :
                   output[i] =
                       IF fn.v = "rgb16to8"
                       THEN [red   |-> Shr(R, args.rshift),
                             green |-> Shr(G, args.rshift),
                             blue  |-> Shr(B, args.rshift)]
                       ELSE [red |-> R, green |-> G, blue |-> B]

\* demosaic_malvar_rgb8 has returned on the 2 x 2 mosaic of (max_val,
\* max_val / 2, 0), every pixel of which is a corner, and all four elements
\* hold the triple
C30_Witness ==
    /\ fn = [kind |-> "image", v |-> "rgb8"]
    /\ pc = "done"
    /\ args.n_rows = 2 /\ args.n_cols = 2
    /\ bayer = make_single_color_input(2, 2, args.max_val,
                                       args.max_val \div 2, 0)
    /\ written = 0..3
    /\ \A i \in 0..3 :
           output[i] = [red |-> args.max_val, green |-> args.max_val \div 2,
                        blue |-> 0]
    /\ args.max_val \div 2 > 0

====
